---- MODULE Spec2Model ----
(***************************************************************************)
(* Model of the APNs client (package apns): Client.Push, Client.PushMulti, *)
(* Client.newBody, Client.newRequest and Client.handleResponse, with the   *)
(* transport (cli.do) as a nondeterministic collaborator.                  *)
(***************************************************************************)
EXTENDS Integers, Sequences, FiniteSets, TLC

\* ------------------------------------------------------------------ bounds
MaxLen == 3        \* longest token list handed to PushMulti

\* ------------------------------------------------------- program constants
MaxTokens == 100

Nil == [kind |-> "nil"]
NoErr == [kind |-> "nil"]

\* notification.PushType constants
PushTypes ==
    {"alert", "background", "complication", "controls", "fileprovider",
     "liveactivity", "location", "mdm", "pushtotalk", "voip", "widgets"}

\* priority.None, PowerOnly, Conserve, Immediate
Priorities == {0, 1, 5, 10}

\* Priority.String: the decimal digits of PowerOnly, Conserve and Immediate,
\* the empty string of any other value
PriorityString(p) == IF p \in {1, 5, 10} THEN ToString(p) ELSE ""

\* a *EpochTime: nil, or a pointer to a number of seconds
NilEpochTime == [isNil |-> TRUE, v |-> 0]
\* a time.Time: the zero time, or an instant given by its UNIX seconds
ZeroTime == [isZero |-> TRUE, unix |-> 0]
TimeAt(u) == [isZero |-> FALSE, unix |-> u]
\* NewEpochTime
NewEpochTime(t) == [isNil |-> FALSE, v |-> IF t.isZero THEN 0 ELSE t.unix]
ExpirationOnce == NewEpochTime(ZeroTime)
\* EpochTime.String
EpochTimeString(e) == ToString(e)


\* ------------------------------------------- what an encoder returns
ErrInvalidType == [kind |-> "ErrInvalidType"]
\* what an encoding function returns: the bytes and a nil error, or a nil
\* slice and the error; w is what the function has appended to its buffer
\* when it returns
Ok(b) == [err |-> NoErr, b |-> b, nilSlice |-> FALSE, w |-> b]
\* Fail that hands back what was written so far
Fail_partial(e) == [err |-> e, b |-> <<"{">>, nilSlice |-> FALSE, w |-> <<>>]

Fail(e) == [err |-> e, b |-> <<>>, nilSlice |-> TRUE, w |-> <<>>]
\* the error e returned after the bytes w were appended
FailAt(e, w) == [Fail(e) EXCEPT !.w = w]
\* the error of the call that gave r, handed on with what was appended
Failed(r) == FailAt(r.err, r.w)

\* Payload.MarshalJSONFast once apsBytes and customDataBytes are there; hasCustom is
\* len(p.CustomData) > 0, without which marshalCustomData is not called
PayloadBytes(apsBytes, customDataBytes, hasCustom) ==
    IF apsBytes.err # NoErr THEN Fail(apsBytes.err)
    ELSE IF hasCustom /\ customDataBytes.err # NoErr THEN Fail(customDataBytes.err)
    ELSE Ok(<<"{">> \o <<"\"", "a", "p", "s", "\"", ":">> \o apsBytes.b
            \o (IF hasCustom THEN <<",">> \o customDataBytes.b ELSE <<>>)
            \o <<"}">>)

\* ------------------------------------------------------------ the payload
\* APS.Alert is a dynamic value: absent, a string (of len bytes 'A'), or a
\* value of a type the APS does not allow (an int).
AlertAbsent == [t |-> "nil", len |-> 0]
AlertString(k) == [t |-> "string", len |-> k]
AlertInt == [t |-> "int", len |-> 0]

NilPayload == [isNil |-> TRUE, APS |-> [Alert |-> AlertAbsent], CustomData |-> "empty"]
MkPayload(a, c) == [isNil |-> FALSE, APS |-> [Alert |-> a], CustomData |-> c]

\* APS.Validate, for an APS whose only populated field can be Alert
APSValidate(aps) ==
    LET isNotification == aps.Alert.t # "nil"
        isLiveActivity == FALSE
    IN  IF ~isNotification /\ ~isLiveActivity
          THEN [kind |-> "validation", msg |-> "aps dictionary must not be empty"]
        ELSE IF aps.Alert.t \notin {"nil", "string"}
          THEN [kind |-> "validation", msg |-> "invalid type for aps.Alert"]
        ELSE NoErr

\* APS.MarshalJSONFast: the number of bytes written, or ErrInvalidType.
\* '{' , '"alert":' , the quoted string, '}'
APSMarshalFastLen(aps) ==
    IF aps.Alert.t = "nil" THEN [err |-> NoErr, len |-> 2]
    ELSE IF aps.Alert.t = "string"
      THEN [err |-> NoErr, len |-> 1 + 8 + (1 + aps.Alert.len + 1) + 1]
    ELSE [err |-> [kind |-> "ErrInvalidType"], len |-> 0]

\* a string of k bytes 'A'
As(k) == [i \in 1..k |-> "A"]

\* APS.MarshalJSONFast: what it returns and, in w, what it has appended
APSBytes(aps) ==
    IF aps.Alert.t = "nil" THEN Ok(<<"{", "}">>)
    ELSE IF aps.Alert.t = "string"
      THEN Ok(<<"{", "\"", "a", "l", "e", "r", "t", "\"", ":", "\"">>
              \o As(aps.Alert.len) \o <<"\"", "}">>)
    ELSE FailAt(ErrInvalidType, <<"{", "\"", "a", "l", "e", "r", "t", "\"", ":">>)

\* marshalCustomData: what it returns and, in w, what it has appended
CustomDataBytes(c) ==
    IF c = "int" THEN Ok(<<"\"", "k", "\"", ":", "1">>)
    ELSE IF c = "struct" THEN FailAt(ErrInvalidType, <<"\"", "k", "\"", ":">>)
    ELSE Ok(<<>>)

\* marshalCustomData: CustomData is empty, {"k": 1} or {"k": struct{}{}}
\* (a value whose runtime type EncodeValue does not support).
marshalCustomDataLen(c) ==
    IF c = "int" THEN [err |-> NoErr, len |-> 3 + 1 + 1]
    ELSE IF c = "struct" THEN [err |-> [kind |-> "ErrInvalidType"], len |-> 0]
    ELSE [err |-> NoErr, len |-> 0]

\* Payload.MarshalJSONFast (value receiver: a nil *Payload panics)
PayloadMarshalJSONFast(p) ==
    IF p.isNil THEN [panic |-> TRUE, err |-> NoErr, len |-> 0]
    ELSE
      LET a == APSMarshalFastLen(p.APS)
          c == marshalCustomDataLen(p.CustomData)
      IN  IF a.err # NoErr THEN [panic |-> FALSE, err |-> a.err, len |-> 0]
          ELSE IF p.CustomData # "empty" /\ c.err # NoErr
            THEN [panic |-> FALSE, err |-> c.err, len |-> 0]
          ELSE [panic |-> FALSE, err |-> NoErr,
                len |-> 1 + 6 + a.len
                        + (IF p.CustomData # "empty" THEN 1 + c.len ELSE 0) + 1]

\* Payload.MarshalJSON through encoding/json: a nil pointer encodes as
\* null; the reflective encoder accepts the int alert and the empty struct.
PayloadMarshalJSON(p) ==
    IF p.isNil THEN [panic |-> FALSE, err |-> NoErr, len |-> 4]
    ELSE
      LET apsLen == IF p.APS.Alert.t = "nil" THEN 2
                    ELSE IF p.APS.Alert.t = "string"
                      THEN 1 + 8 + (1 + p.APS.Alert.len + 1) + 1
                    ELSE 1 + 8 + 1 + 1
          cLen == IF p.CustomData = "int" THEN 1 + 3 + 1 + 1
                  ELSE IF p.CustomData = "struct" THEN 1 + 3 + 1 + 2
                  ELSE 0
      IN  [panic |-> FALSE, err |-> NoErr, len |-> 1 + 6 + apsLen + cLen + 1]

\* -------------------------------------------------------- the notification
ValidUUIDs == {"123e4567-e89b-12d3-a456-426614174000"}

\* Notification.Validate
Validate(n) ==
    IF n.BundleID = "" THEN [kind |-> "validation", msg |-> "BundleID is required"]
    ELSE IF n.DeviceToken = ""
      THEN [kind |-> "validation", msg |-> "DeviceToken is required"]
    ELSE IF n.Type = ""
      THEN [kind |-> "validation", msg |-> "apns-push-type is required"]
    ELSE IF n.Type \notin PushTypes
      THEN [kind |-> "validation", msg |-> "invalid apns-push-type"]
    ELSE IF n.APNsID # "" /\ n.APNsID \notin ValidUUIDs
      THEN [kind |-> "validation", msg |-> "invalid APNsID"]
    ELSE IF n.Priority \notin Priorities
      THEN [kind |-> "validation", msg |-> "invalid apns-priority"]
    ELSE IF n.Payload.isNil
      THEN IF n.Type \in {"alert", "background"}
             THEN [kind |-> "validation", msg |-> "Payload is required"]
             ELSE NoErr
    ELSE APSValidate(n.Payload.APS)

\* Notification.Clone
Clone(n) == n

\* Notification.Topic: the bundle id and the suffix of the push type
Topic(n) ==
    LET suffix ==
          CASE n.Type = "complication" -> ".complication"
            [] n.Type = "controls" -> ".push-type.controls"
            [] n.Type = "fileprovider" -> ".pushkit.fileprovider"
            [] n.Type = "liveactivity" -> ".push-type.liveactivity"
            [] n.Type = "location" -> ".location-query"
            [] n.Type = "pushtotalk" -> ".voip-ptt"
            [] n.Type = "voip" -> ".voip"
            [] n.Type = "widgets" -> ".push-type.widgets"
            [] OTHER -> ""
    IN  <<n.BundleID, suffix>>

\* ------------------------------------------------------------- the client
\* NewClient (token provider or certificate, WithDevelopment), followed by
\* the field assignments a caller may make (FastJson; a TokenLimits one
\* below the longest token list of the model).
NewClient(tokenBase, development) ==
    [TokenBase |-> tokenBase, Development |-> development,
     TokenLimits |-> MaxTokens, FastJson |-> TRUE]

Clients ==
    {NewClient(TRUE, FALSE), NewClient(FALSE, FALSE), NewClient(TRUE, TRUE),
     [NewClient(TRUE, FALSE) EXCEPT !.FastJson = FALSE],
     [NewClient(TRUE, FALSE) EXCEPT !.TokenLimits = MaxLen - 1]}

\* sizeLimit with the voip branch lost
sizeLimit_noVoip(type) == 4096

\* the size ceiling of Client.newBody
sizeLimit(type) == IF type = "voip" THEN 5120 ELSE 4096

\* Client.newBody
newBody(cli, n) ==
    LET m == IF cli.FastJson THEN PayloadMarshalJSONFast(n.Payload)
             ELSE PayloadMarshalJSON(n.Payload)
    IN  IF m.panic THEN [panic |-> TRUE, err |-> NoErr, body |-> Nil]
        ELSE IF m.err # NoErr
          THEN [panic |-> FALSE, body |-> Nil,
                err |-> [kind |-> "marshal", inner |-> m.err]]
        ELSE IF m.len > sizeLimit(n.Type)
          THEN [panic |-> FALSE, body |-> Nil,
                err |-> [kind |-> "size", voip |-> (n.Type = "voip"), len |-> m.len]]
        ELSE [panic |-> FALSE, err |-> NoErr,
              body |-> [kind |-> "bytes", len |-> m.len, payload |-> n.Payload]]

\* url.PathEscape on the device tokens of the model
PathEscape(tok) == IF tok = "x/y" THEN "x%2Fy" ELSE tok

\* a header: whether it is set, and its value
NoHeader == [set |-> FALSE, v |-> ""]
Header(v) == [set |-> TRUE, v |-> v]

\* the error of Client.newRequest
RequestErr == [kind |-> "request", msg |-> "failed to create request",
               inner |-> [kind |-> "net/http: nil Context"]]

\* newRequest that sends no body
newRequest_noBody(ctxNil, n, body) ==
    IF ctxNil THEN [err |-> RequestErr, req |-> Nil]
    ELSE [err |-> NoErr,
          req |-> [path |-> PathEscape(n.DeviceToken),
                   pushType |-> n.Type,
                   topic |-> Topic(n),
                   apnsID |-> IF n.APNsID # "" THEN Header(n.APNsID) ELSE NoHeader,
                   expiration |-> IF ~n.Expiration.isNil
                                    THEN Header(EpochTimeString(n.Expiration.v))
                                    ELSE NoHeader,
                   priority |-> IF n.Priority # 0
                                  THEN Header(PriorityString(n.Priority))
                                  ELSE NoHeader,
                   collapseID |-> IF n.CollapseID # "" THEN Header(n.CollapseID)
                                  ELSE NoHeader,
                   body |-> Nil]]

\* Client.newRequest: http.NewRequestWithContext, which refuses a nil
\* context, then the path and the headers that are set
newRequest(ctxNil, n, body) ==
    IF ctxNil THEN [err |-> RequestErr, req |-> Nil]
    ELSE [err |-> NoErr,
          req |-> [path |-> PathEscape(n.DeviceToken),
                   pushType |-> n.Type,
                   topic |-> Topic(n),
                   apnsID |-> IF n.APNsID # "" THEN Header(n.APNsID) ELSE NoHeader,
                   expiration |-> IF ~n.Expiration.isNil
                                    THEN Header(EpochTimeString(n.Expiration.v))
                                    ELSE NoHeader,
                   priority |-> IF n.Priority # 0
                                  THEN Header(PriorityString(n.Priority))
                                  ELSE NoHeader,
                   collapseID |-> IF n.CollapseID # "" THEN Header(n.CollapseID)
                                  ELSE NoHeader,
                   body |-> body]]

\* whether Push and PushMulti come to call newBody
ReachesNewBody(cli, n) ==
    Validate(n) = NoErr /\ ~(n.Type = "location" /\ ~cli.TokenBase)

\* LocalChecks with the location check lost
LocalChecks_noLocation(cli, n) ==
    IF Validate(n) # NoErr THEN [panic |-> FALSE, err |-> Validate(n), body |-> Nil]
    ELSE newBody(cli, n)

\* the checks of Push and PushMulti that precede the transport call:
\* Validate, the location check, newBody
LocalChecks(cli, n) ==
    LET v == Validate(n)
        b == newBody(cli, n)
    IN  IF v # NoErr THEN [panic |-> FALSE, err |-> v, body |-> Nil]
        ELSE IF n.Type = "location" /\ ~cli.TokenBase
          THEN [panic |-> FALSE, body |-> Nil,
                err |-> [kind |-> "config", msg |-> "location push type is not allowed"]]
        ELSE b

\* TokenListCheck with >= for >
TokenListCheck_ge(cli, tokens) ==
    IF Len(tokens) = 0
      THEN [kind |-> "config", msg |-> "token list is empty"]
    ELSE IF Len(tokens) >= cli.TokenLimits
      THEN [kind |-> "config", msg |-> "token limit exceeded"]
    ELSE NoErr

\* the token list checks of PushMulti
TokenListCheck(cli, tokens) ==
    IF Len(tokens) = 0
      THEN [kind |-> "config", msg |-> "token list is empty"]
    ELSE IF Len(tokens) > cli.TokenLimits
      THEN [kind |-> "config", msg |-> "token limit exceeded"]
    ELSE NoErr

\* ------------------------------------------------- transport and responses
\* What cli.do returns: an error, or a response (status, apns-id and
\* apns-unique-id headers, body; readOK is whether io.ReadAll succeeds).
TransportErr ==
    [kind |-> "err", status |-> 0, id |-> "", unique |-> "",
     body |-> [kind |-> "empty", fields |-> <<>>], readOK |-> TRUE]
HTTPResp(status, id, unique, body, readOK) ==
    [kind |-> "resp", status |-> status, id |-> id, unique |-> unique,
     body |-> body, readOK |-> readOK]

EmptyBody == [kind |-> "empty", fields |-> <<>>]
InvalidBody == [kind |-> "invalid", fields |-> <<>>]
NullBody == [kind |-> "null", fields |-> <<>>]
ObjectBody(f) == [kind |-> "object", fields |-> f]

\* json.Unmarshal into struct{Reason string; Timestamp int64}
Unmarshal(body) ==
    IF body.kind = "invalid" THEN [ok |-> FALSE, Reason |-> "", Timestamp |-> 0]
    ELSE IF body.kind = "null" THEN [ok |-> TRUE, Reason |-> "", Timestamp |-> 0]
    ELSE [ok |-> TRUE,
          Reason |-> IF "reason" \in DOMAIN body.fields
                       THEN body.fields["reason"] ELSE "",
          Timestamp |-> IF "timestamp" \in DOMAIN body.fields
                          THEN body.fields["timestamp"] ELSE 0]

\* handleResponse that builds an *Error from any parsable body
handleResponse_anyReason(cli, resp) ==
    LET response == [DeviceToken |-> "",
                     UniqueID |-> IF cli.Development THEN resp.unique ELSE "",
                     APNsID |-> resp.id]
        errPayload == Unmarshal(resp.body)
    IN  IF ~resp.readOK THEN [resp |-> response, err |-> [kind |-> "read"]]
        ELSE IF resp.status = 200 THEN [resp |-> response, err |-> NoErr]
        ELSE IF resp.body.kind = "empty"
          THEN [resp |-> response,
                err |-> [kind |-> "generic", why |-> "empty response body",
                         status |-> resp.status]]
        ELSE IF ~errPayload.ok
          THEN [resp |-> response,
                err |-> [kind |-> "generic", why |-> "failed to parse error response",
                         status |-> resp.status]]
        ELSE [resp |-> response,
              err |-> [kind |-> "Error", StatusCode |-> resp.status,
                       Reason |-> errPayload.Reason,
                       Timestamp |-> errPayload.Timestamp]]

\* handleResponse that returns the Response only on success
handleResponse_nilOnError(cli, resp) ==
    LET response == [DeviceToken |-> "",
                     UniqueID |-> IF cli.Development THEN resp.unique ELSE "",
                     APNsID |-> resp.id]
        errPayload == Unmarshal(resp.body)
    IN  IF ~resp.readOK THEN [resp |-> Nil, err |-> [kind |-> "read"]]
        ELSE IF resp.status = 200 THEN [resp |-> response, err |-> NoErr]
        ELSE IF resp.body.kind = "empty"
          THEN [resp |-> Nil,
                err |-> [kind |-> "generic", why |-> "empty response body",
                         status |-> resp.status]]
        ELSE IF ~errPayload.ok
          THEN [resp |-> Nil,
                err |-> [kind |-> "generic", why |-> "failed to parse error response",
                         status |-> resp.status]]
        ELSE IF errPayload.Reason # ""
          THEN [resp |-> Nil,
                err |-> [kind |-> "Error", StatusCode |-> resp.status,
                         Reason |-> errPayload.Reason,
                         Timestamp |-> errPayload.Timestamp]]
        ELSE [resp |-> Nil,
              err |-> [kind |-> "generic", why |-> "request failed",
                       status |-> resp.status]]

\* Client.handleResponse
handleResponse(cli, resp) ==
    LET response == [DeviceToken |-> "",
                     UniqueID |-> IF cli.Development THEN resp.unique ELSE "",
                     APNsID |-> resp.id]
        errPayload == Unmarshal(resp.body)
    IN  IF ~resp.readOK THEN [resp |-> response, err |-> [kind |-> "read"]]
        ELSE IF resp.status = 200 THEN [resp |-> response, err |-> NoErr]
        ELSE IF resp.body.kind = "empty"
          THEN [resp |-> response,
                err |-> [kind |-> "generic", why |-> "empty response body",
                         status |-> resp.status]]
        ELSE IF ~errPayload.ok
          THEN [resp |-> response,
                err |-> [kind |-> "generic", why |-> "failed to parse error response",
                         status |-> resp.status]]
        ELSE IF errPayload.Reason # ""
          THEN [resp |-> response,
                err |-> [kind |-> "Error", StatusCode |-> resp.status,
                         Reason |-> errPayload.Reason,
                         Timestamp |-> errPayload.Timestamp]]
        ELSE [resp |-> response,
              err |-> [kind |-> "generic", why |-> "request failed",
                       status |-> resp.status]]

\* DrainStep that tests res.Resp instead of res.Err
DrainStep_byResp(acc, res) ==
    IF res.Resp = Nil
      THEN [acc EXCEPT !.failures = (res.Token :> res.Err) @@ @]
      ELSE [acc EXCEPT !.successes =
                         Append(@, [res.Resp EXCEPT !.DeviceToken = res.Token])]

\* one iteration of the drain loop of PushMulti
DrainStep(acc, res) ==
    IF res.Err # NoErr
      THEN [acc EXCEPT !.failures = (res.Token :> res.Err) @@ @]
      ELSE [acc EXCEPT !.successes =
                         Append(@, [res.Resp EXCEPT !.DeviceToken = res.Token])]

\* the drain loop of PushMulti over the closed results channel
RECURSIVE Drain(_, _, _)
Drain(rs, succ, failures) ==
    IF rs = <<>> THEN [successes |-> succ, failures |-> failures]
    ELSE LET acc == DrainStep([successes |-> succ, failures |-> failures], Head(rs))
         IN  Drain(Tail(rs), acc.successes, acc.failures)

\* MultiReturn that wraps the failures without looking at their number
MultiReturn_always(succ, failures) ==
    [resp |-> Nil, list |-> succ, nilList |-> FALSE,
     err |-> [kind |-> "MultiError", Failures |-> failures]]

\* the return statement of PushMulti after the drain loop
MultiReturn(succ, failures) ==
    IF DOMAIN failures # {}
      THEN [resp |-> Nil, list |-> succ, nilList |-> FALSE,
            err |-> [kind |-> "MultiError", Failures |-> failures]]
      ELSE [resp |-> Nil, list |-> succ, nilList |-> FALSE, err |-> NoErr]

\* workerProceeds of a worker that gives up once another worker has failed
workerProceeds_abortOnFailure(ctxErr, rs) ==
    ~ctxErr /\ \A k \in 1..Len(rs) : rs[k].Err = NoErr

\* workerProceeds of a worker that does not look at the context
workerProceeds_ignoreCtx(ctxErr, rs) == TRUE

\* the guard of a PushMulti worker: ctx.Err() == nil
workerProceeds(ctxErr, rs) == ~ctxErr

\* ------------------------------------------------------ inputs of the model
Base ==
    [BundleID |-> "com.example.app", DeviceToken |-> "D", Type |-> "alert",
     APNsID |-> "", Expiration |-> NilEpochTime, Priority |-> 0, CollapseID |-> "",
     Payload |-> MkPayload(AlertString(4), "empty")]

\* alert lengths that put the serialized payload on the two ceilings
AlertLens == {4, 4076, 4077, 5100, 5101}

SizedNotifications ==
    {[Base EXCEPT !.Type = t, !.Payload = MkPayload(AlertString(k), c)] :
        t \in PushTypes, k \in AlertLens, c \in {"empty", "int"}}

OddNotifications ==
    {[Base EXCEPT !.BundleID = ""], [Base EXCEPT !.DeviceToken = ""],
     [Base EXCEPT !.Type = ""], [Base EXCEPT !.Type = "invalid-push-type"],
     [Base EXCEPT !.APNsID = "invalid-uuid"],
     [Base EXCEPT !.APNsID = "123e4567-e89b-12d3-a456-426614174000"],
     [Base EXCEPT !.Priority = 999], [Base EXCEPT !.Priority = 10],
     [Base EXCEPT !.Priority = 5, !.CollapseID = "c1",
                  !.Expiration = NewEpochTime(TimeAt(1700000000))],
     [Base EXCEPT !.Expiration = ExpirationOnce],
     [Base EXCEPT !.Payload = MkPayload(AlertAbsent, "empty")],
     [Base EXCEPT !.Payload = MkPayload(AlertInt, "empty")],
     [Base EXCEPT !.Payload = MkPayload(AlertString(4), "struct")],
     [Base EXCEPT !.Payload = MkPayload(AlertString(4076), "struct")]}
    \cup {[Base EXCEPT !.Type = t, !.Payload = NilPayload] :
            t \in {"alert", "background", "voip", "location"}}

Notifications == SizedNotifications \cup OddNotifications

\* the notifications handed to PushMulti
MultiNotifications ==
    {Base,
     [Base EXCEPT !.DeviceToken = ""],
     [Base EXCEPT !.BundleID = ""],
     [Base EXCEPT !.APNsID = "invalid-uuid"],
     [Base EXCEPT !.Type = "location"],
     [Base EXCEPT !.Payload = MkPayload(AlertAbsent, "empty")],
     [Base EXCEPT !.Payload = MkPayload(AlertString(4), "struct")],
     [Base EXCEPT !.Type = "voip", !.Payload = NilPayload],
     [Base EXCEPT !.Payload = MkPayload(AlertString(4077), "empty")],
     [Base EXCEPT !.Type = "voip", !.Payload = MkPayload(AlertString(5100), "empty")],
     [Base EXCEPT !.Type = "voip", !.Payload = MkPayload(AlertString(5101), "empty")]}

Tokens == {"A", "x/y"}

TokenLists ==
    UNION {[1..k -> Tokens] : k \in 0..MaxLen} \cup {<<"">>, <<"", "A">>}

\* the calls of PushMulti: any notification with any token list, those whose
\* payload is at a ceiling with the lists of up to two tokens
MultiCalls ==
    {c \in MultiNotifications \X TokenLists :
        (~c[1].Payload.isNil /\ c[1].Payload.APS.Alert.len > 4000) => Len(c[2]) <= 2}

\* what the transport may answer
OK200 == HTTPResp(200, "id-1", "u-1", EmptyBody, TRUE)
Bad400 == HTTPResp(400, "id-2", "", ObjectBody([reason |-> "BadDeviceToken"]), TRUE)
Empty500 == HTTPResp(500, "", "", EmptyBody, TRUE)

Outcomes ==
    {TransportErr, OK200, Bad400, Empty500,
     HTTPResp(200, "id-3", "", ObjectBody([reason |-> "BadDeviceToken"]), TRUE),
     HTTPResp(200, "", "u-2", InvalidBody, TRUE),
     HTTPResp(410, "id-4", "u-4",
              ObjectBody([reason |-> "Unregistered", timestamp |-> 1678886400]), TRUE),
     HTTPResp(500, "id-5", "", InvalidBody, TRUE),
     HTTPResp(501, "id-6", "", ObjectBody([message |-> "Generic error"]), TRUE),
     HTTPResp(503, "id-7", "", ObjectBody([reason |-> "", timestamp |-> 5]), TRUE),
     HTTPResp(502, "id-8", "", NullBody, TRUE),
     HTTPResp(200, "id-9", "", EmptyBody, FALSE),
     HTTPResp(500, "id-10", "", EmptyBody, FALSE)}

MultiOutcomes == {TransportErr, OK200, Bad400, Empty500}

\* ------------------------------------------------------------------ state
VARIABLES
    cli,        \* the Client
    n,          \* the caller's Notification (the object Push/PushMulti get a pointer to)
    op,         \* the operation called: "none", "Push", "PushMulti"
    pc,         \* position of the calling goroutine
    args,       \* the arguments as they were when the call was made
    body,       \* the local variable body
    ctxErr,     \* whether ctx is cancelled
    xport,      \* per position of the token list: transport calls made, request, answer
    wpc,        \* per position: position of the worker goroutine
    results,    \* the buffered channel results
    closed,     \* whether results is closed
    successes,  \* the local variable successes
    ret,        \* what the call returned
    fin,        \* the Payload a validation or encoding function is applied to
    fres,       \* the function applied to fin and what it returned
    apsPool,    \* the buffers in apsPool
    customDataPool, \* the buffers in customDataPool
    mem,        \* per buffer: whether New made it, its capacity, the bytes of its array
    gor,        \* per goroutine calling Payload.MarshalJSONFast: position and locals
    alertPool,  \* the buffers in alertPool
    slices      \* the slices the MarshalJSONFast calls of one goroutine returned so far

\* the state of the payload functions: the pooled buffers, which newBody uses
\* through Payload.MarshalJSONFast, and what the functions called directly got
callVars == <<alertPool, slices>>
poolVars == <<apsPool, customDataPool, mem, gor, callVars>>
encVars == <<fin, fres, poolVars>>
vars == <<cli, n, op, pc, args, body, ctxErr, xport, wpc, results, closed, successes, ret,
          encVars>>

NoInput == [kind |-> "none"]
NotApplied == [fn |-> "none"]

\* goroutines that call Payload.MarshalJSONFast, and the buffers each pool's New can make
Goroutines == 1..2
apsBufs == {1, 2}
customDataBufs == {3, 4}
alertBufs == {5, 6}
apsBufSize == 560
customDataBufSize == 512
alertBufSize == 512
\* the capacity of the buffer New makes
NewCap(x) ==
    IF x \in apsBufs THEN apsBufSize
    ELSE IF x \in customDataBufs THEN customDataBufSize
    ELSE alertBufSize
\* p is the position of the call's Payload in PoolInputs, aps and cd the buffers the call
\* got from apsPool and customDataPool, apsLen and cdLen the lengths of apsBytes and
\* customDataBytes, w the bytes the encoder appends, i the bytes appended or copied so
\* far, b the result buffer
NotCalled ==
    [pc |-> "idle", calls |-> 0, p |-> 0, aps |-> 0, apsLen |-> 0, cd |-> 0, cdLen |-> 0,
     w |-> <<>>, i |-> 0, b |-> <<>>]
PoolInit ==
    /\ apsPool = {}
    /\ customDataPool = {}
    /\ mem = [x \in apsBufs \cup customDataBufs \cup alertBufs |->
                [made |-> FALSE, cap |-> NewCap(x), a |-> <<>>]]
    /\ gor = [g \in Goroutines |-> NotCalled]
    /\ alertPool = {}
    /\ slices = <<>>

\* ----------------------------------------------------- the pooled buffers
\* A slice is the array it shares (x, a pooled buffer, or 0 for an array no
\* pool knows, whose content is bytes) and its length; slices holds what the
\* MarshalJSONFast calls returned, which the caller keeps: got is the content
\* at the return, want the encoding of the input.

\* the size classes of the allocator, for the small objects (up to 32768
\* bytes); a larger object takes whole pages
SizeClasses ==
    {8, 16, 24, 32, 48, 64, 80, 96, 112, 128, 144, 160, 176, 192, 208, 224, 240, 256,
     288, 320, 352, 384, 416, 448, 480, 512, 576, 640, 704, 768, 896, 1024, 1152, 1280,
     1408, 1536, 1792, 2048, 2304, 2688, 3072, 3200, 3456, 4096, 4864, 5376, 6144,
     6528, 6784, 6912, 8192, 9472, 9728, 10240, 10880, 12288, 13568, 14336, 16384,
     18432, 19072, 20480, 21760, 24576, 27264, 28672, 32768}
\* the capacity the allocator gives a byte slice that asks for size bytes:
\* the least size class that holds them, or pages of 8192 bytes
roundupsize(size) ==
    IF size <= 32768
      THEN CHOOSE c \in SizeClasses :
             c >= size /\ \A d \in SizeClasses : d >= size => c <= d
      ELSE ((size + 8191) \div 8192) * 8192
\* append on a byte slice of capacity oldCap that is to hold newLen bytes
\* and cannot: the capacity of the new array
growslice(oldCap, newLen) ==
    LET RECURSIVE grow(_)
        grow(c) == IF c >= newLen THEN c ELSE grow(c + (c + 768) \div 4)
    IN  roundupsize(IF newLen > 2 * oldCap THEN newLen
                    ELSE IF oldCap < 256 THEN 2 * oldCap
                    ELSE grow(oldCap))
\* the capacity after appends of one byte each have brought a slice of
\* capacity cap to the length len
RECURSIVE ByteWiseCap(_, _)
ByteWiseCap(cap, len) ==
    IF len <= cap THEN cap ELSE ByteWiseCap(growslice(cap, cap + 1), len)
\* the capacities a slice of capacity cap may have once appends have brought
\* it to the length len, whatever the sizes of the appends: an append that
\* outgrows the capacity c, to hold m bytes, gives growslice(c, m). quoting
\* says that strconv.AppendQuote is among the appends (EncodeValue), which,
\* for a string that does not fit, first moves to an array made for exactly
\* the bytes before it, the string and the two quotes; the braces that close
\* the map and the APS follow.
GrownCaps(cap, len, quoting) ==
    LET once(caps) ==
            caps \cup UNION {{growslice(c, m) : m \in (c + 1)..len}
                               \cup (IF quoting THEN (c + 3)..(len - 2) ELSE {}) :
                             c \in {d \in caps : d < len}}
        RECURSIVE all(_)
        all(caps) == IF once(caps) \subseteq caps THEN caps ELSE all(once(caps))
    IN  {c \in all({cap}) : c >= len}

\* the buffers, pools and slices as one value
Heap ==
    [mem |-> mem, apsPool |-> apsPool, alertPool |-> alertPool,
     customDataPool |-> customDataPool, slices |-> slices]
NilSlice == [x |-> 0, len |-> 0, bytes |-> <<>>]
\* what a slice holds
Content(m, s) == IF s.x = 0 THEN s.bytes ELSE SubSeq(m[s.x].a, 1, s.len)

\* sync.Pool.Get on the buffers m
Get(m, pool, ids) ==
    LET unmade == {x \in ids : ~m[x].made}
    IN  pool \cup (IF unmade = {} THEN {}
                   ELSE {CHOOSE x \in unmade : \A y \in unmade : x <= y})

\* the array a after w was appended to a[:0]
Overwrite(a, w) == w \o SubSeq(a, Len(w) + 1, Len(a))

\* the slices once the array of buffer x is no more the array of a pooled
\* buffer: those that share it keep it, with the content old
Detach(sl, x, old) ==
    [h \in DOMAIN sl |->
        IF sl[h].x = x THEN [sl[h] EXCEPT !.x = 0, !.bytes = SubSeq(old, 1, sl[h].len)]
        ELSE sl[h]]

\* b := (*ptr)[:0] followed by the appends of w, for the buffer x: within the
\* capacity the array of x is written; beyond it append moves to a new array
\* after writing some k bytes to the old one, which the slices that share
\* the old array see. appends tells the appends made past the capacity:
\* "bytes" when they are of one byte each, which settles the capacity of the
\* new array, "strconv" when strconv.AppendQuote may be among them, "any"
\* otherwise. Gives the heaps and the slice b.
AppendTo(h, x, w, appends) ==
    LET buf == h.mem[x]
        shared == \E i \in DOMAIN h.slices : h.slices[i].x = x
    IN  IF Len(w) <= buf.cap
          THEN {[h |-> [h EXCEPT !.mem[x] = [made |-> TRUE, cap |-> buf.cap,
                                             a |-> Overwrite(buf.a, w)]],
                 s |-> [x |-> x, len |-> Len(w), bytes |-> <<>>]]}
          ELSE {[h |-> [h EXCEPT !.mem[x] = [made |-> TRUE, cap |-> c, a |-> w],
                                 !.slices = Detach(@, x, Overwrite(buf.a, SubSeq(w, 1, k)))],
                 s |-> [x |-> x, len |-> Len(w), bytes |-> <<>>]] :
                  c \in (IF appends = "bytes" THEN {ByteWiseCap(buf.cap, Len(w))}
                         ELSE GrownCaps(buf.cap, Len(w), appends = "strconv")),
                  k \in (IF shared THEN 0..buf.cap ELSE {0})}

\* Alert.MarshalJSONFast, its appends being w: Get, the appends, the
\* deferred *ptr = b and Put
AlertCall(h, w) ==
    UNION {{[h |-> [o.h EXCEPT !.alertPool = h.alertPool \cup {y}], s |-> o.s,
             err |-> NoErr] :
              o \in AppendTo(h, y, w, "any")} :
           y \in Get(h.mem, h.alertPool, alertBufs)}

\* APS.MarshalJSONFast, r being what it computes (r.w the bytes appended
\* before an error), hasAlert whether Alert is an Alert or *Alert, alert the
\* appends of Alert.MarshalJSONFast, and nilled whether an error is one of
\* EncodeValue: Get, the appends (Alert.MarshalJSONFast for an Alert or
\* *Alert), the deferred *ptr = b and Put. After an error of EncodeValue b
\* is nil (b, err = EncodeValue(b, v)), and so is *ptr.
APSCall(h, r, hasAlert, alert, nilled, appends) ==
    LET afterAlert == IF hasAlert THEN {o.h : o \in AlertCall(h, alert)} ELSE {h}
        put(o, x) == [o.h EXCEPT !.apsPool = o.h.apsPool \cup {x}]
    IN  UNION {UNION {
          IF r.err = NoErr
            THEN {[h |-> put(o, x), s |-> o.s, err |-> NoErr] :
                    o \in AppendTo(ha, x, r.b, appends)}
          ELSE {[h |-> IF nilled
                         THEN [put(o, x) EXCEPT
                                 !.mem[x] = [made |-> TRUE, cap |-> 0, a |-> <<>>],
                                 !.slices = Detach(@, x, o.h.mem[x].a)]
                         ELSE put(o, x),
                 s |-> NilSlice, err |-> r.err] :
                  o \in AppendTo(ha, x, r.w, appends)} :
          x \in Get(ha.mem, ha.apsPool, apsBufs)} : ha \in afterAlert}

\* marshalCustomData(b, p.CustomData) for b := (*ptr)[:0] of the buffer x, its
\* appends being w. The function appends to its own b, so the b of
\* Payload.MarshalJSONFast keeps the array and the capacity of x. Within the
\* capacity the array of x is written and customDataBytes shares it; beyond it
\* customDataBytes is a new array that no pool knows, and the array of x
\* holds the k bytes appended before the append that outgrew it (k depends
\* on the sizes of the appends that strconv makes). Gives the heaps and the
\* slice customDataBytes.
marshalCustomDataInto(h, x, w) ==
    LET buf == h.mem[x]
    IN  IF Len(w) <= buf.cap
          THEN {[h |-> [h EXCEPT !.mem[x] = [made |-> TRUE, cap |-> buf.cap,
                                             a |-> Overwrite(buf.a, w)]],
                 s |-> [x |-> x, len |-> Len(w), bytes |-> <<>>]]}
          ELSE {[h |-> [h EXCEPT !.mem[x] = [made |-> TRUE, cap |-> buf.cap,
                                             a |-> Overwrite(buf.a, SubSeq(w, 1, k))]],
                 s |-> [x |-> 0, len |-> Len(w), bytes |-> w]] :
                  k \in 0..buf.cap}

\* Payload.MarshalJSONFast, apsCalls being what APS.MarshalJSONFast may do,
\* has whether CustomData has entries and c what marshalCustomData computes
\* (c.w the bytes appended before an error): for a CustomData with entries
\* Get, marshalCustomData, the copy into a new array, and the deferred
\* *ptr = b and Put, b being (*ptr)[:0] still
PayloadCallAll(has, apsCalls, c) ==
    LET fresh(hh, e, bytes) ==
            [h |-> hh, err |-> e, s |-> [x |-> 0, bytes |-> bytes, len |-> Len(bytes)]]
        put(oa, oc, z) == [oc.h EXCEPT !.customDataPool = oa.h.customDataPool \cup {z}]
    IN  UNION {
          IF oa.err # NoErr THEN {[h |-> oa.h, s |-> NilSlice, err |-> oa.err]}
          ELSE IF ~has
            THEN {fresh(oa.h, NoErr, rb) :
                    rb \in {PayloadBytes(Ok(Content(oa.h.mem, oa.s)), Ok(<<>>), FALSE).b}}
          ELSE UNION {UNION {
                 IF c.err # NoErr
                   THEN {[h |-> put(oa, oc, z), s |-> NilSlice, err |-> c.err]}
                   ELSE {fresh(put(oa, oc, z), NoErr, rb) :
                           rb \in {PayloadBytes(Ok(Content(oc.h.mem, oa.s)),
                                                Ok(Content(oc.h.mem, oc.s)), TRUE).b}} :
                 oc \in marshalCustomDataInto(oa.h, z, c.w)} :
                 z \in Get(oa.h.mem, oa.h.customDataPool, customDataBufs)} :
          oa \in apsCalls}

\* the buffers and pools a call leaves
Left(o) ==
    /\ mem' = o.h.mem
    /\ apsPool' = o.h.apsPool
    /\ alertPool' = o.h.alertPool
    /\ customDataPool' = o.h.customDataPool

\* what Client.newBody does to the pooled buffers: with FastJson it calls
\* Payload.MarshalJSONFast, whose appends past the capacity of the aps buffer
\* are those of appendQuote, of one byte each
newBodyBuffers(c, nn) ==
    IF ReachesNewBody(c, nn) /\ c.FastJson /\ ~nn.Payload.isNil
      THEN \E h \in {Heap}, r \in {APSBytes(nn.Payload.APS)} :
             \E o \in PayloadCallAll(nn.Payload.CustomData # "empty",
                                     APSCall(h, r, FALSE, <<>>, FALSE, "bytes"),
                                     CustomDataBytes(nn.Payload.CustomData)) :
                Left(o)
      ELSE UNCHANGED <<mem, apsPool, alertPool, customDataPool>>

NoCall == [calls |-> 0, req |-> Nil, out |-> Nil]
NoRet == [resp |-> Nil, list |-> <<>>, nilList |-> TRUE, err |-> NoErr]
ErrRet(e) == [resp |-> Nil, list |-> <<>>, nilList |-> TRUE, err |-> e]

Init ==
    /\ cli \in Clients
    /\ n = Base
    /\ op = "none"
    /\ pc = "idle"
    /\ args = [n |-> Base, tokens |-> <<>>, ctxNil |-> FALSE]
    /\ body = Nil
    /\ ctxErr = FALSE
    /\ xport = <<>>
    /\ wpc = <<>>
    /\ results = <<>>
    /\ closed = FALSE
    /\ successes = <<>>
    /\ ret = NoRet
    /\ fin = NoInput
    /\ fres = NotApplied
    /\ PoolInit

\* the caller's context is cancelled (or its deadline passes)
Cancel ==
    /\ ~ctxErr
    /\ pc \notin {"done", "panic"}
    /\ ctxErr' = TRUE
    /\ UNCHANGED <<cli, n, op, pc, args, body, xport, wpc, results, closed, successes, ret>>
    /\ UNCHANGED encVars

\* Client.Push up to the call of cli.do
PushStart(nn, ctxNil) ==
    /\ pc = "idle"
    /\ ctxNil => ~ctxErr
    /\ op' = "Push"
    /\ n' = nn
    /\ args' = [n |-> nn, tokens |-> <<>>, ctxNil |-> ctxNil]
    /\ LET lc == LocalChecks(cli, nn)
           rq == newRequest(ctxNil, nn, lc.body)
       IN  IF lc.panic
             THEN pc' = "panic" /\ ret' = ret /\ body' = body /\ xport' = <<NoCall>>
           ELSE IF lc.err # NoErr
             THEN pc' = "done" /\ ret' = ErrRet(lc.err) /\ body' = body
                  /\ xport' = <<NoCall>>
           ELSE IF rq.err # NoErr
             THEN pc' = "done" /\ ret' = ErrRet(rq.err) /\ body' = lc.body
                  /\ xport' = <<NoCall>>
           ELSE /\ pc' = "inflight"
                /\ ret' = ret
                /\ body' = lc.body
                /\ xport' = <<[calls |-> 1, req |-> rq.req, out |-> Nil]>>
    /\ newBodyBuffers(cli, nn)
    /\ UNCHANGED <<cli, ctxErr, wpc, results, closed, successes>>
    /\ UNCHANGED <<fin, fres, gor, slices>>

\* Client.Push from the return of cli.do
PushRecv(o) ==
    /\ op = "Push"
    /\ pc = "inflight"
    /\ xport' = [xport EXCEPT ![1].out = o]
    /\ ret' = IF o.kind = "err"
                THEN ErrRet([kind |-> "wrapped", inner |-> [kind |-> "transport"]])
                ELSE LET h == handleResponse(cli, o)
                     IN  [resp |-> h.resp, list |-> <<>>, nilList |-> TRUE, err |-> h.err]
    /\ pc' = "done"
    /\ UNCHANGED <<cli, n, op, args, body, ctxErr, wpc, results, closed, successes>>
    /\ UNCHANGED encVars

\* Client.PushMulti up to the call of cli.do for the first token
MultiStart(nn, toks, ctxNil) ==
    /\ pc = "idle"
    /\ ctxNil => ~ctxErr
    /\ op' = "PushMulti"
    /\ args' = [n |-> nn, tokens |-> toks, ctxNil |-> ctxNil]
    /\ IF TokenListCheck(cli, toks) # NoErr
         THEN /\ n' = nn
              /\ pc' = "done" /\ ret' = ErrRet(TokenListCheck(cli, toks)) /\ body' = body
              /\ UNCHANGED <<mem, apsPool, alertPool, customDataPool>>
         ELSE /\ n' = [nn EXCEPT !.DeviceToken = toks[1]]
              /\ LET lc == LocalChecks(cli, n')
                     rq == newRequest(ctxNil, n', lc.body)
                 IN  IF lc.panic
                       THEN pc' = "panic" /\ ret' = ret /\ body' = body
                     ELSE IF lc.err # NoErr
                       THEN pc' = "done" /\ ret' = ErrRet(lc.err) /\ body' = body
                     ELSE IF rq.err # NoErr
                       THEN pc' = "done" /\ ret' = ErrRet(rq.err) /\ body' = lc.body
                     ELSE pc' = "first" /\ ret' = ret /\ body' = lc.body
              /\ newBodyBuffers(cli, n')
    /\ xport' = [i \in 1..Len(toks) |->
                   IF i = 1 /\ pc' = "first"
                     THEN [calls |-> 1, req |-> newRequest(ctxNil, n', body').req,
                           out |-> Nil]
                     ELSE NoCall]
    /\ UNCHANGED <<cli, ctxErr, wpc, results, closed, successes>>
    /\ UNCHANGED <<fin, fres, gor, slices>>

\* MultiFirstRecv that returns a nil list when the first answer is not a success
MultiFirstRecv_nilList(o) ==
    /\ op = "PushMulti"
    /\ pc = "first"
    /\ xport' = [xport EXCEPT ![1].out = o]
    /\ IF o.kind = "err"
         THEN /\ ret' = ErrRet([kind |-> "wrapped", inner |-> [kind |-> "transport"]])
              /\ pc' = "done"
              /\ UNCHANGED <<successes, wpc>>
         ELSE LET h == handleResponse(cli, o)
              IN  IF h.err # NoErr
                    THEN /\ ret' = ErrRet(h.err)
                         /\ pc' = "done"
                         /\ UNCHANGED <<successes, wpc>>
                    ELSE /\ successes' = <<[h.resp EXCEPT !.DeviceToken = args.tokens[1]]>>
                         /\ wpc' = [i \in 1..Len(args.tokens) |->
                                      IF i = 1 THEN "none" ELSE "start"]
                         /\ pc' = "wait"
                         /\ ret' = ret
    /\ UNCHANGED <<cli, n, op, args, body, ctxErr, results, closed>>
    /\ UNCHANGED encVars

\* MultiFirstRecv that starts the workers whatever the first answer is, and
\* treats a failure of the first token as a failure of any other token
MultiFirstRecv_noEarlyReturn(o) ==
    /\ op = "PushMulti"
    /\ pc = "first"
    /\ xport' = [xport EXCEPT ![1].out = o]
    /\ LET h == IF o.kind = "err" THEN [resp |-> Nil, err |-> [kind |-> "transport"]]
                ELSE handleResponse(cli, o)
       IN  /\ successes' = IF h.err = NoErr
                             THEN <<[h.resp EXCEPT !.DeviceToken = args.tokens[1]]>>
                             ELSE <<>>
           /\ results' = IF h.err = NoErr THEN results
                         ELSE <<[Token |-> args.tokens[1], Resp |-> h.resp, Err |-> h.err]>>
    /\ wpc' = [i \in 1..Len(args.tokens) |-> IF i = 1 THEN "none" ELSE "start"]
    /\ pc' = "wait"
    /\ ret' = ret
    /\ UNCHANGED <<cli, n, op, args, body, ctxErr, closed>>
    /\ UNCHANGED encVars

\* Client.PushMulti from the return of cli.do for the first token to the
\* start of the workers
MultiFirstRecv(o) ==
    /\ op = "PushMulti"
    /\ pc = "first"
    /\ xport' = [xport EXCEPT ![1].out = o]
    /\ IF o.kind = "err"
         THEN /\ ret' = ErrRet([kind |-> "wrapped", inner |-> [kind |-> "transport"]])
              /\ pc' = "done"
              /\ UNCHANGED <<successes, wpc>>
         ELSE LET h == handleResponse(cli, o)
              IN  IF h.err # NoErr
                    THEN /\ ret' = [resp |-> Nil, list |-> <<h.resp>>,
                                    nilList |-> FALSE, err |-> h.err]
                         /\ pc' = "done"
                         /\ UNCHANGED <<successes, wpc>>
                    ELSE /\ successes' = <<[h.resp EXCEPT !.DeviceToken = args.tokens[1]]>>
                         /\ wpc' = [i \in 1..Len(args.tokens) |->
                                      IF i = 1 THEN "none" ELSE "start"]
                         /\ pc' = "wait"
                         /\ ret' = ret
    /\ UNCHANGED <<cli, n, op, args, body, ctxErr, results, closed>>
    /\ UNCHANGED encVars

\* WorkerStart of a worker that returns without a result when the context
\* is cancelled
WorkerStart_noResult(i) ==
    /\ pc = "wait"
    /\ i \in DOMAIN wpc
    /\ wpc[i] = "start"
    /\ IF workerProceeds(ctxErr, results)
         THEN LET notification == [Clone(n) EXCEPT !.DeviceToken = args.tokens[i]]
                  rq == newRequest(args.ctxNil, notification, body)
              IN  IF rq.err # NoErr
                    THEN /\ results' = results
                         /\ wpc' = [wpc EXCEPT ![i] = "done"]
                         /\ xport' = xport
                    ELSE /\ xport' = [xport EXCEPT ![i] =
                                       [calls |-> @.calls + 1, req |-> rq.req,
                                        out |-> Nil]]
                         /\ wpc' = [wpc EXCEPT ![i] = "inflight"]
                         /\ results' = results
         ELSE /\ results' = results
              /\ wpc' = [wpc EXCEPT ![i] = "done"]
              /\ xport' = xport
    /\ UNCHANGED <<cli, n, op, pc, args, body, ctxErr, closed, successes, ret>>
    /\ UNCHANGED encVars

\* a worker goroutine of PushMulti up to the call of cli.do
WorkerStart(i) ==
    /\ pc = "wait"
    /\ i \in DOMAIN wpc
    /\ wpc[i] = "start"
    /\ IF workerProceeds(ctxErr, results)
         THEN LET notification == [Clone(n) EXCEPT !.DeviceToken = args.tokens[i]]
                  rq == newRequest(args.ctxNil, notification, body)
              IN  IF rq.err # NoErr
                    THEN /\ results' = Append(results,
                                              [Token |-> args.tokens[i], Resp |-> Nil,
                                               Err |-> rq.err])
                         /\ wpc' = [wpc EXCEPT ![i] = "done"]
                         /\ xport' = xport
                    ELSE /\ xport' = [xport EXCEPT ![i] =
                                       [calls |-> @.calls + 1, req |-> rq.req,
                                        out |-> Nil]]
                         /\ wpc' = [wpc EXCEPT ![i] = "inflight"]
                         /\ results' = results
         ELSE /\ results' = Append(results,
                                   [Token |-> args.tokens[i], Resp |-> Nil,
                                    Err |-> [kind |-> "ctx"]])
              /\ wpc' = [wpc EXCEPT ![i] = "done"]
              /\ xport' = xport
    /\ UNCHANGED <<cli, n, op, pc, args, body, ctxErr, closed, successes, ret>>
    /\ UNCHANGED encVars

\* WorkerRecv of a worker that tries again after a transport error
WorkerRecv_retry(i, o) ==
    /\ pc = "wait"
    /\ i \in DOMAIN wpc
    /\ wpc[i] = "inflight"
    /\ xport' = [xport EXCEPT ![i].out = o]
    /\ IF o.kind = "err"
         THEN /\ results' = results
              /\ wpc' = [wpc EXCEPT ![i] = "start"]
         ELSE LET h == handleResponse(cli, o)
              IN  /\ results' = Append(results, [Token |-> args.tokens[i],
                                                  Resp |-> h.resp, Err |-> h.err])
                  /\ wpc' = [wpc EXCEPT ![i] = "done"]
    /\ UNCHANGED <<cli, n, op, pc, args, body, ctxErr, closed, successes, ret>>
    /\ UNCHANGED encVars

\* a worker goroutine of PushMulti from the return of cli.do
WorkerRecv(i, o) ==
    /\ pc = "wait"
    /\ i \in DOMAIN wpc
    /\ wpc[i] = "inflight"
    /\ xport' = [xport EXCEPT ![i].out = o]
    /\ results' =
         IF o.kind = "err"
           THEN Append(results, [Token |-> args.tokens[i], Resp |-> Nil,
                                 Err |-> [kind |-> "transport"]])
           ELSE LET h == handleResponse(cli, o)
                IN  Append(results, [Token |-> args.tokens[i], Resp |-> h.resp,
                                     Err |-> h.err])
    /\ wpc' = [wpc EXCEPT ![i] = "done"]
    /\ UNCHANGED <<cli, n, op, pc, args, body, ctxErr, closed, successes, ret>>
    /\ UNCHANGED encVars

\* MultiWait that does not wait for the workers
MultiWait_noBarrier ==
    /\ pc = "wait"
    /\ closed' = TRUE
    /\ pc' = "drain"
    /\ UNCHANGED <<cli, n, op, args, body, ctxErr, xport, wpc, results, successes, ret>>
    /\ UNCHANGED encVars

\* wg.Wait() returns and results is closed
MultiWait ==
    /\ pc = "wait"
    /\ \A i \in DOMAIN wpc : wpc[i] \in {"none", "done"}
    /\ closed' = TRUE
    /\ pc' = "drain"
    /\ UNCHANGED <<cli, n, op, args, body, ctxErr, xport, wpc, results, successes, ret>>
    /\ UNCHANGED encVars

\* the drain loop and the return of PushMulti
MultiDrain ==
    /\ pc = "drain"
    /\ LET d == Drain(results, successes, <<>>)
       IN  /\ successes' = d.successes
           /\ ret' = MultiReturn(d.successes, d.failures)
    /\ results' = <<>>
    /\ pc' = "done"
    /\ UNCHANGED <<cli, n, op, args, body, ctxErr, xport, wpc, closed>>
    /\ UNCHANGED encVars

Next ==
    \/ Cancel
    \/ \E nn \in Notifications, ctxNil \in BOOLEAN : PushStart(nn, ctxNil)
    \/ \E o \in Outcomes : PushRecv(o)
    \/ \E c \in MultiCalls, ctxNil \in BOOLEAN : MultiStart(c[1], c[2], ctxNil)
    \/ \E o \in MultiOutcomes : MultiFirstRecv(o)
    \/ \E i \in 1..(MaxLen + 1) : WorkerStart(i)
    \/ \E i \in 1..(MaxLen + 1), o \in MultiOutcomes : WorkerRecv(i, o)
    \/ MultiWait
    \/ MultiDrain

Spec == Init /\ [][Next]_vars

TypeOK ==
    /\ op \in {"none", "Push", "PushMulti"}
    /\ pc \in {"idle", "inflight", "first", "wait", "drain", "done", "panic"}
    /\ ctxErr \in BOOLEAN
    /\ closed \in BOOLEAN

\* ------------------------------------------------- what the service saw
Positions == DOMAIN xport
Sent(i) == xport[i].calls > 0
Answered(i) == Sent(i) /\ xport[i].out # Nil
\* the service accepted the request at position i: HTTP 200, read in full
Accepted(i) ==
    /\ Answered(i)
    /\ xport[i].out.kind = "resp"
    /\ xport[i].out.status = 200
    /\ xport[i].out.readOK
NoTransportCalls == \A i \in Positions : xport[i].calls = 0
MultiDone == op = "PushMulti" /\ pc = "done"
PushDone == op = "Push" /\ pc = "done"
FirstAccepted == 1 \in Positions /\ Accepted(1)
CountToken(list, t) == Cardinality({k \in 1..Len(list) : list[k].DeviceToken = t})
FailedTokens == {args.tokens[i] : i \in {j \in Positions : ~Accepted(j)}}

\* C1: when the first token is accepted, PushMulti returns one Response per
\* accepted position of the token list (each tagged with its token), and if
\* some send failed the error is a MultiError whose Failures keys are exactly
\* the tokens of the positions whose send failed.
C1_PartialFailure ==
    (MultiDone /\ FirstAccepted) =>
        /\ ~ret.nilList
        /\ Len(ret.list) = Cardinality({i \in Positions : Accepted(i)})
        /\ \A t \in Tokens :
             CountToken(ret.list, t)
               = Cardinality({i \in Positions : Accepted(i) /\ args.tokens[i] = t})
        /\ FailedTokens # {} =>
             /\ ret.err.kind = "MultiError"
             /\ DOMAIN ret.err.Failures = FailedTokens
        /\ FailedTokens = {} => ret.err = NoErr

\* tokens [A, fail-device, A]: the second is rejected with a structured reason
C1_Witness ==
    /\ MultiDone
    /\ args.tokens = <<"A", "x/y", "A">>
    /\ Accepted(1) /\ xport[2].out = Bad400 /\ Accepted(3)
    /\ Len(ret.list) = 2
    /\ ret.err.kind = "MultiError"
    /\ DOMAIN ret.err.Failures = {"x/y"}

\* C2 as stated: a failed send at any position, the first included, leaves a
\* request issued for every other token (the context not being cancelled)
\* and is reported in the aggregate error.
C2_AnyPosition ==
    MultiDone =>
        \A i \in Positions :
            (Sent(i) /\ ~Accepted(i)) =>
                /\ ret.err.kind = "MultiError"
                /\ args.tokens[i] \in DOMAIN ret.err.Failures
                /\ ~ctxErr => \A j \in Positions \ {i} : Sent(j)

\* C2 amended: once the first token was accepted, a failed send at any other
\* position leaves a request issued for every other token (the context not
\* being cancelled) and is reported in MultiError.Failures.
C2_LaterPositions ==
    (MultiDone /\ FirstAccepted) =>
        \A i \in Positions \ {1} :
            (Sent(i) /\ ~Accepted(i)) =>
                /\ ret.err.kind = "MultiError"
                /\ args.tokens[i] \in DOMAIN ret.err.Failures
                /\ ~ctxErr => \A j \in Positions \ {i} : Sent(j)

\* the second of three sends failed and the third was still issued afterwards
C2_Witness ==
    /\ op = "PushMulti" /\ pc = "wait"
    /\ Len(args.tokens) = 3
    /\ Accepted(1)
    /\ Answered(2) /\ ~Accepted(2)
    /\ Len(results) = 1 /\ results[1].Err # NoErr
    /\ wpc[3] = "inflight"

\* C3: an empty token list, or one longer than Client.TokenLimits, gives an
\* error, a nil list and no transport call; a list of exactly TokenLimits
\* tokens is not rejected by the token list checks.
C3_TokenListChecks ==
    op = "PushMulti" =>
        /\ (Len(args.tokens) = 0 \/ Len(args.tokens) > cli.TokenLimits) =>
             /\ pc = "done"
             /\ ret.err # NoErr
             /\ ret.nilList
             /\ NoTransportCalls
        /\ (Len(args.tokens) > 0 /\ Len(args.tokens) = cli.TokenLimits /\ pc = "done") =>
             ~(ret.err.kind = "config"
               /\ ret.err.msg \in {"token list is empty", "token limit exceeded"})

\* a list of exactly TokenLimits tokens went through to the workers
C3_Witness ==
    /\ MultiDone
    /\ Len(args.tokens) = cli.TokenLimits
    /\ \A i \in Positions : Sent(i)

\* the notification the local checks of the call look at
Checked ==
    IF op = "PushMulti" /\ Len(args.tokens) > 0
      THEN [args.n EXCEPT !.DeviceToken = args.tokens[1]]
      ELSE args.n
Marshalled ==
    IF cli.FastJson THEN PayloadMarshalJSONFast(Checked.Payload)
    ELSE PayloadMarshalJSON(Checked.Payload)
EnvelopeValid == Validate(Checked) = NoErr
LocationOnCert == Checked.Type = "location" /\ ~cli.TokenBase
\* the call got as far as newBody and the payload was serialized
Serialized ==
    /\ op \in {"Push", "PushMulti"}
    /\ op = "PushMulti" => TokenListCheck(cli, args.tokens) = NoErr
    /\ EnvelopeValid /\ ~LocationOnCert
    /\ ~Marshalled.panic /\ Marshalled.err = NoErr
Ceiling == IF Checked.Type = "voip" THEN 5120 ELSE 4096
SomeLocalCheckFails ==
    /\ op \in {"Push", "PushMulti"}
    /\ op = "PushMulti" => TokenListCheck(cli, args.tokens) = NoErr
    /\ \/ ~EnvelopeValid
       \/ LocationOnCert
       \/ EnvelopeValid /\ ~Marshalled.panic /\ Marshalled.err # NoErr
       \/ EnvelopeValid /\ ~Marshalled.panic /\ Marshalled.len > Ceiling

\* C4: a transport call is made only when envelope validation, the location
\* check, payload serialization and the size check all passed; when one of
\* them fails the call has returned an error, a nil response (list) and no
\* transport call was made for any token.
C4_ChecksBeforeTransport ==
    /\ (\E i \in Positions : Sent(i)) =>
          /\ Serialized
          /\ Marshalled.len <= Ceiling
    /\ SomeLocalCheckFails =>
          /\ pc = "done"
          /\ ret.err # NoErr
          /\ ret.resp = Nil /\ ret.nilList
          /\ NoTransportCalls

\* PushMulti of a location notification on a certificate-based client
C4_Witness ==
    /\ MultiDone
    /\ Len(args.tokens) = 3
    /\ EnvelopeValid /\ LocationOnCert
    /\ ret.err.kind = "config" /\ ret.nilList
    /\ NoTransportCalls

\* C5: newBody fails with a size error iff the serialized payload is longer
\* than 5120 bytes (voip) or 4096 bytes (every other push type); a longer
\* one makes no transport call, and a payload within the ceiling is sent,
\* the call having been given a context.
C5_SizeCeiling ==
    Serialized =>
        /\ (Marshalled.len > Ceiling) <=> (pc = "done" /\ ret.err.kind = "size")
        /\ (Marshalled.len > Ceiling) => NoTransportCalls
        /\ (Marshalled.len <= Ceiling /\ ~args.ctxNil) => (1 \in Positions /\ Sent(1))

\* a voip payload of exactly 5120 bytes was sent
C5_Witness ==
    /\ PushDone
    /\ Checked.Type = "voip"
    /\ Serialized /\ Marshalled.len = 5120
    /\ Sent(1)

\* the body of the answer parses as JSON with a non-empty reason
HasReason(o) ==
    /\ o.body.kind = "object"
    /\ "reason" \in DOMAIN o.body.fields
    /\ o.body.fields["reason"] # ""

\* C6: classification of an answer whose body was read: status 200 gives a
\* nil error whatever the body; another status with a non-empty reason gives
\* an *Error with that status, reason and timestamp (0 when absent); every
\* other answer gives an error that is not an *Error and names the status.
C6_Classification ==
    (PushDone /\ Answered(1) /\ xport[1].out.kind = "resp" /\ xport[1].out.readOK) =>
        LET o == xport[1].out
        IN  /\ o.status = 200 => ret.err = NoErr
            /\ (o.status # 200 /\ HasReason(o)) =>
                 /\ ret.err.kind = "Error"
                 /\ ret.err.StatusCode = o.status
                 /\ ret.err.Reason = o.body.fields["reason"]
                 /\ ret.err.Timestamp =
                      IF "timestamp" \in DOMAIN o.body.fields
                        THEN o.body.fields["timestamp"] ELSE 0
            /\ (o.status # 200 /\ ~HasReason(o)) =>
                 /\ ret.err.kind = "generic"
                 /\ ret.err.status = o.status

\* a 503 whose body parses but has an empty reason gave a generic error
C6_Witness ==
    /\ PushDone /\ Answered(1)
    /\ xport[1].out.status = 503
    /\ xport[1].out.body.kind = "object"
    /\ ret.err.kind = "generic" /\ ret.err.status = 503

\* C7: whenever the transport returned an HTTP response, Push returns a
\* Response whose APNsID is the apns-id header, whatever the error; the
\* Response is nil only when no response was received.
C7_ResponseWithError ==
    PushDone =>
        /\ (Answered(1) /\ xport[1].out.kind = "resp") =>
              /\ ret.resp # Nil
              /\ ret.resp.APNsID = xport[1].out.id
        /\ ret.resp = Nil =>
              (~Sent(1) \/ xport[1].out.kind = "err")

\* a 410 with a structured reason: the *Error comes with the Response
C7_Witness ==
    /\ PushDone /\ Answered(1)
    /\ xport[1].out.status = 410
    /\ ret.err.kind = "Error"
    /\ ret.resp # Nil /\ ret.resp.APNsID = "id-4"

\* C8: PushMulti returns a nil error iff the send to every token succeeded,
\* and then the list has len(tokens) entries; the Failures map of a
\* MultiError it returns is never empty.
C8_NilErrorIffAllSucceeded ==
    MultiDone =>
        /\ (ret.err = NoErr) <=> (Positions # {} /\ \A i \in Positions : Accepted(i))
        /\ ret.err = NoErr => Len(ret.list) = Len(args.tokens)
        /\ ret.err.kind = "MultiError" => DOMAIN ret.err.Failures # {}

\* three tokens, all accepted
C8_Witness ==
    /\ MultiDone
    /\ Len(args.tokens) = 3
    /\ \A i \in Positions : Accepted(i)
    /\ ret.err = NoErr /\ Len(ret.list) = 3

\* C9: every Response in the list PushMulti returns belongs to a position of
\* the token list that the service accepted with HTTP 200, and carries that
\* token in DeviceToken.
C9_OnlySuccessfulDeliveries ==
    MultiDone =>
        \A k \in 1..Len(ret.list) :
            \E i \in Positions :
                /\ Accepted(i)
                /\ ret.list[k].DeviceToken = args.tokens[i]
                /\ ret.list[k].APNsID = xport[i].out.id

\* C10: after PushMulti returns, the caller's Notification has the values it
\* had before the call.
C10_NotificationUnchanged ==
    MultiDone => n = args.n


\* ------------------------------------------ cancellation, barrier, retries
Remaining == Positions \ {1}
CtxResult(i) == [Token |-> args.tokens[i], Resp |-> Nil, Err |-> [kind |-> "ctx"]]
\* the context was cancelled while every worker was still before its check
CancelledBeforeWorkers ==
    /\ op = "PushMulti" /\ pc = "wait" /\ ctxErr
    /\ \A i \in DOMAIN wpc \ {1} : wpc[i] = "start"
NoRemainingCall ==
    \A i \in Remaining :
        /\ xport[i].calls = 0
        /\ ret.err.kind = "MultiError"
        /\ args.tokens[i] \in DOMAIN ret.err.Failures

\* C11: a PushMulti worker that passes its context check while the context
\* is cancelled issues no transport call and puts the context error on the
\* results channel for its token; a position that got no transport call
\* after the first token was accepted is a key of MultiError.Failures; and
\* once the context is cancelled with every worker still before its check,
\* PushMulti returns with zero transport calls for the remaining tokens and
\* each of them a key of MultiError.Failures.
C11_CancelledWorkers ==
    /\ [][\A i \in DOMAIN wpc :
            (ctxErr /\ wpc[i] = "start" /\ wpc'[i] # "start") =>
                /\ xport'[i] = NoCall
                /\ wpc'[i] = "done"
                /\ results' = Append(results, CtxResult(i))]_vars
    /\ []((MultiDone /\ FirstAccepted) =>
            \A i \in Remaining :
                ~Sent(i) => /\ ret.err.kind = "MultiError"
                            /\ args.tokens[i] \in DOMAIN ret.err.Failures)
    /\ [](CancelledBeforeWorkers => [](MultiDone => NoRemainingCall))

\* PushMulti returned after a cancellation: the first token was sent, no
\* other token was, and the two remaining tokens are the failures
C11_Witness ==
    /\ MultiDone /\ ctxErr
    /\ args.tokens = <<"A", "x/y", "A">>
    /\ Accepted(1)
    /\ xport[2] = NoCall /\ xport[3] = NoCall
    /\ ret.err.kind = "MultiError"
    /\ DOMAIN ret.err.Failures = {"x/y", "A"}
    /\ \A t \in DOMAIN ret.err.Failures : ret.err.Failures[t] = [kind |-> "ctx"]
    /\ Len(ret.list) = 1

\* C12: once wg.Wait() has returned (the drain loop and the return of
\* PushMulti come after it) no worker goroutine is before or inside its
\* transport call, and no transport call of the invocation is unanswered.
C12_JoinBarrier ==
    (op = "PushMulti" /\ pc \in {"drain", "done"}) =>
        /\ \A i \in DOMAIN wpc : wpc[i] \in {"none", "done"}
        /\ \A i \in Positions : Sent(i) => xport[i].out # Nil

\* PushMulti returned after two workers made their transport calls
C12_Witness ==
    /\ MultiDone
    /\ Len(args.tokens) = 3
    /\ \A i \in Positions : Answered(i)
    /\ wpc[2] = "done" /\ wpc[3] = "done"

\* C13: a Push issues at most one transport call and a PushMulti at most one
\* per position of the token list, whatever the calls return.
C13_NoRetries ==
    /\ \A i \in Positions : xport[i].calls <= 1
    /\ op = "Push" => Cardinality(Positions) <= 1
    /\ op = "PushMulti" => Positions = DOMAIN args.tokens

\* every position of a three-token list was called once and all calls failed
\* after the first; and a Push whose one call failed
C13_Witness ==
    /\ MultiDone
    /\ Len(args.tokens) = 3
    /\ Accepted(1)
    /\ xport[2].out = TransportErr /\ xport[3].out = Empty500
    /\ \A i \in Positions : xport[i].calls = 1

\* ------------------------------------- first token, ordering, shared body
FirstFailed == op = "PushMulti" /\ 1 \in Positions /\ Answered(1) /\ ~Accepted(1)
WrappedTransportErr == [kind |-> "wrapped", inner |-> [kind |-> "transport"]]

\* C21: when the send to tokens[0] does not succeed PushMulti has returned
\* (the step that receives the answer is the step that returns) and no
\* request was issued for any other token; after a transport error the list
\* is nil and the error wraps the transport error; after a service answer
\* that is not a success the list holds exactly the Response built from that
\* answer and the error is the classification error, not a MultiError.
C21_FirstTokenFailure ==
    FirstFailed =>
        /\ pc = "done"
        /\ \A i \in Remaining : xport[i] = NoCall
        /\ wpc = <<>> /\ results = <<>>
        /\ xport[1].out.kind = "err" =>
             /\ ret.nilList /\ ret.list = <<>>
             /\ ret.err = WrappedTransportErr
        /\ xport[1].out.kind = "resp" =>
             /\ ~ret.nilList
             /\ Len(ret.list) = 1
             /\ ret.list[1].APNsID = xport[1].out.id
             /\ ret.err.kind \in {"Error", "generic", "read"}
             /\ xport[1].out.status # 200 /\ HasReason(xport[1].out) =>
                  /\ ret.err.kind = "Error"
                  /\ ret.err.Reason = xport[1].out.body.fields["reason"]

\* three tokens, the first rejected with a structured reason
C21_Witness ==
    /\ MultiDone
    /\ Len(args.tokens) = 3
    /\ xport[1].out = Bad400
    /\ xport[2] = NoCall /\ xport[3] = NoCall
    /\ Len(ret.list) = 1 /\ ret.list[1].APNsID = "id-2"
    /\ ret.err.kind = "Error" /\ ret.err.Reason = "BadDeviceToken"

\* three tokens, the first send ends in a transport error
C21_WitnessTransport ==
    /\ MultiDone
    /\ Len(args.tokens) = 3
    /\ xport[1].out = TransportErr
    /\ xport[2] = NoCall /\ xport[3] = NoCall
    /\ ret.nilList /\ ret.err = WrappedTransportErr

\* C22: a request for a token other than tokens[0] is issued only after the
\* request for tokens[0] was answered and classified as a success (its
\* Response is then the first entry of successes); among the other tokens no
\* order is imposed.
C22_FirstBeforeOthers ==
    /\ [](op = "PushMulti" =>
            \A i \in Remaining :
                (Sent(i) \/ (i \in DOMAIN wpc /\ wpc[i] # "start")) =>
                    /\ Accepted(1)
                    /\ Len(successes) >= 1
                    /\ successes[1].DeviceToken = args.tokens[1]
                    /\ successes[1].APNsID = xport[1].out.id)
    /\ [][\A i \in Remaining :
            (op = "PushMulti" /\ ~Sent(i) /\ xport'[i].calls > 0) =>
                (Accepted(1) /\ pc = "wait")]_vars

\* the request for the third token was answered while the one for the second
\* token is not yet issued
C22_Witness ==
    /\ op = "PushMulti" /\ pc = "wait"
    /\ Len(args.tokens) = 3
    /\ Accepted(1)
    /\ Answered(3) /\ wpc[3] = "done"
    /\ ~Sent(2) /\ wpc[2] = "start"

\* both requests are under way and the second token's was answered first:
\* the other order of completion
C22_WitnessInOrder ==
    /\ op = "PushMulti" /\ pc = "wait"
    /\ Len(args.tokens) = 3
    /\ Accepted(1)
    /\ Answered(2) /\ wpc[2] = "done"
    /\ Sent(3) /\ ~Answered(3) /\ wpc[3] = "inflight"

\* the request at position i but for its path
SansPath(i) == [xport[i].req EXCEPT !.path = ""]

\* C23: PushMulti serializes the payload once, before any transport call:
\* the local variable body is set before the first request and never changes
\* afterwards; every request of the invocation carries these bytes, which are
\* the serialization of the notification's payload, and two requests differ
\* in nothing but the device token of the path.
C23_SharedBody ==
    /\ [](op = "PushMulti" =>
            \A i \in Positions : Sent(i) =>
                /\ body # Nil
                /\ xport[i].req.body = body
                /\ body.payload = args.n.Payload
                /\ body.len = Marshalled.len
                /\ xport[i].req.path = PathEscape(args.tokens[i])
                /\ \A j \in Positions : Sent(j) => SansPath(i) = SansPath(j))
    /\ [][(op = "PushMulti" /\ body # Nil) => body' = body]_vars

\* three requests were issued for three tokens, two of them equal
C23_Witness ==
    /\ MultiDone
    /\ args.tokens = <<"A", "x/y", "A">>
    /\ \A i \in Positions : Sent(i)
    /\ xport[2].req.path = "x%2Fy" /\ xport[3].req.path = "A"
    /\ xport[2].req.body = body /\ xport[3].req.body = body /\ body.len > 0

\* ---------------------------------------------------- bytes and Go values
\* A Go string or byte slice is a sequence of bytes. A printable ASCII byte
\* is written as itself (0x60 as "<60>"); "<01>", "<07>", "<08>", "<09>",
\* "<0a>", "<0c>", "<0d>" and "<7f>" are the bytes 0x01, 0x07, ..., 0x7F.
Printable ==
    <<" ", "!", "\"", "#", "$", "%", "&", "'", "(", ")", "*", "+", ",", "-", ".", "/", "0", "1", "2", "3", "4", "5", "6", "7", "8", "9", ":", ";", "<", "=", ">", "?",
      "@", "A", "B", "C", "D", "E", "F", "G", "H", "I", "J", "K", "L", "M", "N", "O", "P", "Q", "R", "S", "T", "U", "V", "W", "X", "Y", "Z", "[", "\\", "]", "^", "_",
      "<60>", "a", "b", "c", "d", "e", "f", "g", "h", "i", "j", "k", "l", "m", "n", "o", "p", "q", "r", "s", "t", "u", "v", "w", "x", "y", "z", "{", "|", "}", "~">>
Code(c) ==
    IF c = "<01>" THEN 1
    ELSE IF c = "<07>" THEN 7
    ELSE IF c = "<08>" THEN 8
    ELSE IF c = "<09>" THEN 9
    ELSE IF c = "<0a>" THEN 10
    ELSE IF c = "<0c>" THEN 12
    ELSE IF c = "<0d>" THEN 13
    ELSE IF c = "<7f>" THEN 127
    ELSE 31 + CHOOSE i \in 1..Len(Printable) : Printable[i] = c
hex == <<"0", "1", "2", "3", "4", "5", "6", "7", "8", "9", "a", "b", "c", "d", "e", "f">>

\* the dynamic values (Go's any) are tagged with their runtime type, each
\* kind of content under a field name of its own; a float64 is held in tenths
GoNil == [t |-> "nil"]
GoString(s) == [t |-> "string", s |-> s]
GoInt(i) == [t |-> "int", v |-> i]
GoInt64(i) == [t |-> "int64", v |-> i]
GoFloat64(tenths) == [t |-> "float64", tenths |-> tenths]
GoBool(b) == [t |-> "bool", b |-> b]
GoBytes(s) == [t |-> "[]byte", s |-> s]
GoStrings(l) == [t |-> "[]string", ls |-> l]
GoInts(l) == [t |-> "[]int", li |-> l]
GoList(l) == [t |-> "[]any", la |-> l]
GoInt64s(l) == [t |-> "[]int64", li |-> l]
GoFloat64s(l) == [t |-> "[]float64", lf |-> l]
GoEpochTimePtr(i) == [t |-> "*EpochTime", v |-> i]
\* a value with a MarshalJSON method, and what the method returns
GoMarshaler(res) == [t |-> "Marshaler", res |-> res]
GoEpochTime(i) == [t |-> "EpochTime", v |-> i]
GoChan == [t |-> "chan"]
\* a map[string]any with the order in which this run's range loop visits it
GoMap(kv) == [t |-> "map", isNil |-> FALSE, kv |-> kv]
NilMap == [t |-> "map", isNil |-> TRUE, kv |-> <<>>]
KV(k, v) == [k |-> k, v |-> v]
NilPtr == [isNil |-> TRUE]
PtrTo(v) == [isNil |-> FALSE, v |-> v]

\* payload.Alert, payload.Sound and payload.APS with their zero values
ZeroAlert ==
    [Title |-> <<>>, Subtitle |-> <<>>, Body |-> <<>>, LaunchImage |-> <<>>,
     ActionLocKey |-> <<>>, LocKey |-> <<>>, LocArgs |-> <<>>,
     TitleLocKey |-> <<>>, TitleLocArgs |-> <<>>, SubtitleLocKey |-> <<>>,
     SubtitleLocArgs |-> <<>>]
ZeroSound == [Name |-> <<>>, Critical |-> 0, Volume |-> 0]
GoAlert(a) == [t |-> "Alert", alert |-> a]
GoAlertPtr(a) == [t |-> "*Alert", alert |-> a]
GoSound(s) == [t |-> "Sound", sound |-> s]
GoSoundPtr(s) == [t |-> "*Sound", sound |-> s]
ZeroAPS ==
    [Alert |-> GoNil, Badge |-> GoNil, Sound |-> GoNil,
     ContentAvailable |-> GoNil, MutableContent |-> GoNil,
     Category |-> <<>>, ThreadID |-> <<>>, InterruptionLevel |-> <<>>,
     RelevanceScore |-> GoNil, StaleDate |-> NilPtr, FilterCriteria |-> <<>>,
     Timestamp |-> NilPtr, TargetContentID |-> <<>>, ContentState |-> NilMap,
     Event |-> <<>>, DismissalDate |-> 0, AttributesType |-> <<>>,
     Attributes |-> NilMap]
\* apns.Payload
GoPayload(aps, custom) == [kind |-> "Payload", APS |-> aps, CustomData |-> custom]

\* ------------------------------------------------------------ validation
ValidationErr(msg) == [kind |-> "validation", msg |-> msg]

\* Ratio.Validate
RatioValidate(r) ==
    IF r < 0 \/ r > 10 THEN ValidationErr("ratio out of range") ELSE NoErr

\* Sound.Validate
SoundValidate(s) ==
    IF s.Critical # 0 /\ s.Critical # 1 THEN ValidationErr("invalid critical flag")
    ELSE IF RatioValidate(s.Volume) # NoErr THEN ValidationErr("volume field error")
    ELSE NoErr

isNotification(aps) ==
    \/ aps.Alert # GoNil
    \/ aps.Badge # GoNil
    \/ aps.Sound # GoNil
    \/ aps.ContentAvailable # GoNil
    \/ aps.MutableContent # GoNil

\* isLiveActivity that takes a non-nil map for a populated one
isLiveActivity_nonNil(aps) ==
    ~aps.ContentState.isNil \/ ~aps.Attributes.isNil

isLiveActivity(aps) ==
    Len(aps.ContentState.kv) > 0 \/ Len(aps.Attributes.kv) > 0

\* the relevance-score check that applies the range to live activities too
RelevanceScoreCheck_always(score, live) ==
    IF score = GoNil THEN NoErr
    ELSE IF score.t \notin {"float64", "int"}
      THEN ValidationErr("invalid type for aps.RelevanceScore")
    ELSE LET s == IF score.t = "float64" THEN score.tenths ELSE 10 * score.v
         IN  IF s < 0 \/ s > 10
               THEN ValidationErr("relevance-score must be between 0.0 and 1.0")
             ELSE NoErr

\* the last check of APS.Validate
RelevanceScoreCheck(score, live) ==
    IF score = GoNil THEN NoErr
    ELSE IF score.t \notin {"float64", "int"}
      THEN ValidationErr("invalid type for aps.RelevanceScore")
    ELSE LET s == IF score.t = "float64" THEN score.tenths ELSE 10 * score.v
         IN  IF ~live /\ (s < 0 \/ s > 10)
               THEN ValidationErr("relevance-score must be between 0.0 and 1.0")
             ELSE NoErr

InterruptionLevels ==
    {<<"p", "a", "s", "s", "i", "v", "e">>, <<"a", "c", "t", "i", "v", "e">>, <<"t", "i", "m", "e", "-", "s", "e", "n", "s", "i", "t", "i", "v", "e">>, <<"c", "r", "i", "t", "i", "c", "a", "l">>}
Events == {<<"s", "t", "a", "r", "t">>, <<"u", "p", "d", "a", "t", "e">>, <<"e", "n", "d">>}

\* APS.Validate with the sound checked before the alert and the badge
APS_Validate_soundFirst(aps) ==
    IF ~isNotification(aps) /\ ~isLiveActivity(aps)
      THEN ValidationErr("aps dictionary must not be empty")
    ELSE IF aps.Sound # GoNil /\ aps.Sound.t \notin {"string", "Sound", "*Sound"}
      THEN ValidationErr("invalid type for aps.Sound")
    ELSE IF aps.Sound # GoNil /\ aps.Sound.t \in {"Sound", "*Sound"}
            /\ SoundValidate(aps.Sound.sound) # NoErr
      THEN SoundValidate(aps.Sound.sound)
    ELSE IF aps.Alert # GoNil /\ aps.Alert.t \notin {"string", "Alert", "*Alert"}
      THEN ValidationErr("invalid type for aps.Alert")
    ELSE IF aps.Badge # GoNil /\ aps.Badge.t # "int"
      THEN ValidationErr("invalid type for aps.Badge")
    ELSE IF aps.ContentAvailable # GoNil /\ aps.ContentAvailable # GoInt(1)
      THEN ValidationErr("invalid value for aps.ContentAvailable")
    ELSE IF aps.MutableContent # GoNil /\ aps.MutableContent # GoInt(1)
      THEN ValidationErr("invalid value for aps.MutableContent")
    ELSE IF aps.InterruptionLevel # <<>> /\ aps.InterruptionLevel \notin InterruptionLevels
      THEN ValidationErr("invalid value for aps.InterruptionLevel")
    ELSE IF aps.Event # <<>> /\ aps.Event \notin Events
      THEN ValidationErr("invalid value for aps.Event")
    ELSE RelevanceScoreCheck(aps.RelevanceScore, isLiveActivity(aps))

\* APS.Validate
APS_Validate(aps) ==
    IF ~isNotification(aps) /\ ~isLiveActivity(aps)
      THEN ValidationErr("aps dictionary must not be empty")
    ELSE IF aps.Alert # GoNil /\ aps.Alert.t \notin {"string", "Alert", "*Alert"}
      THEN ValidationErr("invalid type for aps.Alert")
    ELSE IF aps.Badge # GoNil /\ aps.Badge.t # "int"
      THEN ValidationErr("invalid type for aps.Badge")
    ELSE IF aps.Sound # GoNil /\ aps.Sound.t \notin {"string", "Sound", "*Sound"}
      THEN ValidationErr("invalid type for aps.Sound")
    ELSE IF aps.Sound # GoNil /\ aps.Sound.t \in {"Sound", "*Sound"}
            /\ SoundValidate(aps.Sound.sound) # NoErr
      THEN SoundValidate(aps.Sound.sound)
    ELSE IF aps.ContentAvailable # GoNil /\ aps.ContentAvailable # GoInt(1)
      THEN ValidationErr("invalid value for aps.ContentAvailable")
    ELSE IF aps.MutableContent # GoNil /\ aps.MutableContent # GoInt(1)
      THEN ValidationErr("invalid value for aps.MutableContent")
    ELSE IF aps.InterruptionLevel # <<>> /\ aps.InterruptionLevel \notin InterruptionLevels
      THEN ValidationErr("invalid value for aps.InterruptionLevel")
    ELSE IF aps.Event # <<>> /\ aps.Event \notin Events
      THEN ValidationErr("invalid value for aps.Event")
    ELSE RelevanceScoreCheck(aps.RelevanceScore, isLiveActivity(aps))

\* ------------------------------------- inputs of the payload functions
Live == GoMap(<<KV(<<"s", "t", "a", "t", "u", "s">>, GoString(<<"r", "u", "n">>))>>)
Attr1 == GoMap(<<KV(<<"a", "t", "t", "r">>, GoInt(1))>>)
\* the fields that take no part in the classification of an APS
WithOtherFields(aps) ==
    [aps EXCEPT !.Category = <<"c", "a", "t">>, !.ThreadID = <<"t", "h">>,
                !.InterruptionLevel = <<"a", "c", "t", "i", "v", "e">>,
                !.StaleDate = PtrTo(1700003600), !.FilterCriteria = <<"f", "o", "c", "u", "s">>,
                !.Timestamp = PtrTo(1700000000), !.TargetContentID = <<"i", "d">>,
                !.Event = <<"u", "p", "d", "a", "t", "e">>, !.DismissalDate = 1700000000,
                !.AttributesType = <<"t", "y", "p", "e">>]

ClassifiedAPSs ==
    LET plain ==
          {[ZeroAPS EXCEPT !.Alert = a, !.Badge = b, !.Sound = s,
                           !.ContentAvailable = ca, !.MutableContent = mc,
                           !.ContentState = cs, !.Attributes = at] :
              a \in {GoNil, GoString(<<"H", "i">>)}, b \in {GoNil, GoInt(1)},
              s \in {GoNil, GoString(<<"d", "e", "f", "a", "u", "l", "t">>)}, ca \in {GoNil, GoInt(1)},
              mc \in {GoNil, GoInt(1)},
              cs \in {NilMap, GoMap(<<>>), Live},
              at \in {NilMap, GoMap(<<>>), Attr1}}
    IN  plain \cup {WithOtherFields(aps) : aps \in plain}

Scores ==
    {GoFloat64(0), GoFloat64(5), GoFloat64(10), GoFloat64(11), GoFloat64(-1),
     GoFloat64(250), GoInt(0), GoInt(1), GoInt(2), GoInt(-1), GoString(<<"1">>)}

ScoredAPSs ==
    {[ZeroAPS EXCEPT !.RelevanceScore = r, !.Alert = a, !.ContentState = cs,
                     !.Attributes = at, !.Badge = b] :
        r \in Scores, a \in {GoNil, GoString(<<"H", "i">>), GoInt(123)},
        cs \in {NilMap, GoMap(<<>>), Live}, at \in {NilMap, Attr1},
        b \in {GoNil, GoInt(1)}}

OddAPSs ==
    LET odd ==
          {[ZeroAPS EXCEPT !.Alert = GoInt(123)],
           [ZeroAPS EXCEPT !.Alert = GoAlertPtr([ZeroAlert EXCEPT !.Title = <<"T">>])],
           [ZeroAPS EXCEPT !.Badge = GoString(<<"1">>)],
           [ZeroAPS EXCEPT !.Sound = GoInt(1)],
           [ZeroAPS EXCEPT !.Sound = GoSound([ZeroSound EXCEPT !.Critical = 2, !.Volume = 11])],
           [ZeroAPS EXCEPT !.Sound = GoSoundPtr([ZeroSound EXCEPT !.Critical = 1, !.Volume = 11])],
           [ZeroAPS EXCEPT !.Sound = GoSound([ZeroSound EXCEPT !.Critical = 1, !.Volume = 10])],
           [ZeroAPS EXCEPT !.ContentAvailable = GoInt(0)],
           [ZeroAPS EXCEPT !.MutableContent = GoBool(TRUE)],
           [ZeroAPS EXCEPT !.Alert = GoString(<<"H", "i">>), !.InterruptionLevel = <<"u", "n", "k", "n", "o", "w", "n">>],
           [ZeroAPS EXCEPT !.Alert = GoString(<<"H", "i">>), !.Event = <<"s", "t", "o", "p">>]}
    IN  {[aps EXCEPT !.ContentState = cs, !.RelevanceScore = r] :
            aps \in odd, cs \in {NilMap, Live}, r \in {GoNil, GoFloat64(11)}}

\* dictionaries with more than one invalid field
SeveralInvalidAPSs ==
    LET badSound == GoSound([ZeroSound EXCEPT !.Critical = 2, !.Volume = 11])
        loud == GoSoundPtr([ZeroSound EXCEPT !.Critical = 1, !.Volume = 11])
    IN  {[ZeroAPS EXCEPT !.Alert = GoInt(123), !.Badge = GoString(<<"1">>)],
         [ZeroAPS EXCEPT !.Alert = GoInt(123), !.Sound = GoInt(1)],
         [ZeroAPS EXCEPT !.Badge = GoString(<<"1">>), !.Sound = GoInt(1)],
         [ZeroAPS EXCEPT !.Badge = GoString(<<"1">>), !.Sound = badSound],
         [ZeroAPS EXCEPT !.Sound = GoInt(1), !.ContentAvailable = GoInt(0)],
         [ZeroAPS EXCEPT !.Sound = loud, !.ContentAvailable = GoInt(0)],
         [ZeroAPS EXCEPT !.ContentAvailable = GoInt(0), !.MutableContent = GoBool(TRUE)],
         [ZeroAPS EXCEPT !.MutableContent = GoBool(TRUE),
                         !.InterruptionLevel = <<"u", "n", "k", "n", "o", "w", "n">>],
         [ZeroAPS EXCEPT !.Alert = GoString(<<"H", "i">>), !.InterruptionLevel = <<"u", "n", "k", "n", "o", "w", "n">>,
                         !.Event = <<"s", "t", "o", "p">>],
         [ZeroAPS EXCEPT !.Alert = GoString(<<"H", "i">>), !.Event = <<"s", "t", "o", "p">>,
                         !.RelevanceScore = GoString(<<"1">>)],
         [ZeroAPS EXCEPT !.Alert = GoInt(123), !.Badge = GoString(<<"1">>),
                         !.Sound = badSound, !.ContentAvailable = GoInt(0),
                         !.MutableContent = GoBool(TRUE),
                         !.InterruptionLevel = <<"u", "n", "k", "n", "o", "w", "n">>, !.Event = <<"s", "t", "o", "p">>,
                         !.RelevanceScore = GoFloat64(11)]}

ValidateInputs ==
    {GoPayload(aps, NilMap) :
        aps \in ClassifiedAPSs \cup ScoredAPSs \cup OddAPSs \cup SeveralInvalidAPSs}

\* ------------------------------------------------------ the fast encoder
\* the escape of appendQuote for one byte
escapeByte(c) ==
    IF c = "\"" \/ c = "\\" THEN <<"\\", c>>
    ELSE IF Code(c) <= 31
      THEN <<"\\", "u", "0", "0", hex[(Code(c) \div 16) + 1], hex[(Code(c) % 16) + 1]>>
    ELSE <<c>>

RECURSIVE escapeBytes(_)
escapeBytes(val) ==
    IF val = <<>> THEN <<>> ELSE escapeByte(Head(val)) \o escapeBytes(Tail(val))

\* the closure appendQuote of Sound, Alert and APS.MarshalJSONFast
appendQuote(val) == <<"\"">> \o escapeBytes(val) \o <<"\"">>

RECURSIVE customEscapeBytes(_)
customEscapeBytes(val) ==
    IF val = <<>> THEN <<>>
    ELSE (IF Head(val) = "\"" \/ Head(val) = "\\" THEN <<"\\", Head(val)>>
          ELSE <<Head(val)>>) \o customEscapeBytes(Tail(val))

\* the closure appendQuote of marshalCustomData
marshalCustomData_appendQuote(val) == <<"\"">> \o customEscapeBytes(val) \o <<"\"">>

\* strconv.AppendQuote: a Go string literal
goEscapeByte(c) ==
    IF c = "\"" \/ c = "\\" THEN <<"\\", c>>
    ELSE IF c = "<07>" THEN <<"\\", "a">>
    ELSE IF c = "<08>" THEN <<"\\", "b">>
    ELSE IF c = "<09>" THEN <<"\\", "t">>
    ELSE IF c = "<0a>" THEN <<"\\", "n">>
    ELSE IF c = "<0c>" THEN <<"\\", "f">>
    ELSE IF c = "<0d>" THEN <<"\\", "r">>
    ELSE IF Code(c) <= 31 \/ Code(c) = 127
      THEN <<"\\", "x", hex[(Code(c) \div 16) + 1], hex[(Code(c) % 16) + 1]>>
    ELSE <<c>>

RECURSIVE goEscapeBytes(_)
goEscapeBytes(val) ==
    IF val = <<>> THEN <<>> ELSE goEscapeByte(Head(val)) \o goEscapeBytes(Tail(val))

AppendQuote(val) == <<"\"">> \o goEscapeBytes(val) \o <<"\"">>

\* strconv.AppendInt(b, i, 10)
RECURSIVE Digits(_)
Digits(i) ==
    IF i < 10 THEN <<hex[i + 1]>> ELSE Append(Digits(i \div 10), hex[(i % 10) + 1])
AppendInt(i) == IF i < 0 THEN <<"-">> \o Digits(-i) ELSE Digits(i)

\* strconv.AppendFloat(b, f, 'f', -1, 64) of a float64 held in tenths
AppendFloat(tenths) ==
    LET a == IF tenths < 0 THEN -tenths ELSE tenths
    IN  (IF tenths < 0 THEN <<"-">> ELSE <<>>)
        \o Digits(a \div 10)
        \o (IF a % 10 = 0 THEN <<>> ELSE <<".", hex[(a % 10) + 1]>>)

\* the loops over a slice of EncodeValue and addStringSlice
RECURSIVE JoinQuoted(_, _)
JoinQuoted(vals, i) ==
    IF i > Len(vals) THEN <<>>
    ELSE (IF i > 1 THEN <<",">> ELSE <<>>) \o AppendQuote(vals[i]) \o JoinQuoted(vals, i + 1)

RECURSIVE JoinInts(_, _)
JoinInts(vals, i) ==
    IF i > Len(vals) THEN <<>>
    ELSE (IF i > 1 THEN <<",">> ELSE <<>>) \o AppendInt(vals[i]) \o JoinInts(vals, i + 1)

RECURSIVE JoinFloats(_, _)
JoinFloats(vals, i) ==
    IF i > Len(vals) THEN <<>>
    ELSE (IF i > 1 THEN <<",">> ELSE <<>>) \o AppendFloat(vals[i]) \o JoinFloats(vals, i + 1)

RECURSIVE addStringSliceLoop(_, _)
addStringSliceLoop(vals, i) ==
    IF i > Len(vals) THEN <<>>
    ELSE (IF i > 1 THEN <<",">> ELSE <<>>) \o appendQuote(vals[i])
         \o addStringSliceLoop(vals, i + 1)

RECURSIVE EncodeValue(_, _)
RECURSIVE EncodeMapLoop(_, _, _)
RECURSIVE EncodeListLoop(_, _, _)

\* EncodeValue's loop over a map[string]any, from entry i on
EncodeMapLoop(b, kv, i) ==
    IF i > Len(kv) THEN Ok(b)
    ELSE LET b1 == b \o (IF i > 1 THEN <<",">> ELSE <<>>)
                     \o AppendQuote(kv[i].k) \o <<":">>
             r == EncodeValue(b1, kv[i].v)
         IN  IF r.err # NoErr THEN Failed(r) ELSE EncodeMapLoop(r.b, kv, i + 1)

\* EncodeValue's loop over a []any, from element i on
EncodeListLoop(b, l, i) ==
    IF i > Len(l) THEN Ok(b)
    ELSE LET r == EncodeValue(b \o (IF i > 1 THEN <<",">> ELSE <<>>), l[i])
         IN  IF r.err # NoErr THEN Failed(r) ELSE EncodeListLoop(r.b, l, i + 1)

\* EncodeValue(b, v)
EncodeValue(b, v) ==
    CASE v.t = "string" -> Ok(b \o AppendQuote(v.s))
      [] v.t = "int" -> Ok(b \o AppendInt(v.v))
      [] v.t = "int64" -> Ok(b \o AppendInt(v.v))
      [] v.t = "float64" -> Ok(b \o AppendFloat(v.tenths))
      [] v.t = "bool" -> Ok(b \o (IF v.b THEN <<"t", "r", "u", "e">> ELSE <<"f", "a", "l", "s", "e">>))
      [] v.t = "nil" -> Ok(b \o <<"n", "u", "l", "l">>)
      [] v.t = "[]byte" -> Ok(b \o AppendQuote(v.s))
      [] v.t = "EpochTime" -> Ok(b \o AppendInt(v.v))
      [] v.t = "[]string" -> Ok(b \o <<"[">> \o JoinQuoted(v.ls, 1) \o <<"]">>)
      [] v.t = "*EpochTime" -> Ok(b \o AppendInt(v.v))
      [] v.t = "[]int" -> Ok(b \o <<"[">> \o JoinInts(v.li, 1) \o <<"]">>)
      [] v.t = "[]int64" -> Ok(b \o <<"[">> \o JoinInts(v.li, 1) \o <<"]">>)
      [] v.t = "[]float64" -> Ok(b \o <<"[">> \o JoinFloats(v.lf, 1) \o <<"]">>)
      [] v.t = "Marshaler" ->
           IF v.res.err # NoErr THEN FailAt(v.res.err, b) ELSE Ok(b \o v.res.b)
      [] v.t = "map" ->
           LET r == EncodeMapLoop(b \o <<"{">>, v.kv, 1)
           IN  IF r.err # NoErr THEN Failed(r) ELSE Ok(r.b \o <<"}">>)
      [] v.t = "[]any" ->
           LET r == EncodeListLoop(b \o <<"[">>, v.la, 1)
           IN  IF r.err # NoErr THEN Failed(r) ELSE Ok(r.b \o <<"]">>)
      [] OTHER -> FailAt(ErrInvalidType, b)

\* the state of an encoder between two fields: the buffer b, the flag first
\* and the error that ended the encoding
EncStart(b) == [b |-> b, first |-> TRUE, err |-> NoErr]
addComma(s) == [s EXCEPT !.b = IF s.first THEN @ ELSE Append(@, ","), !.first = FALSE]
\* one field: if present, the comma, the key and the value, or the error
Field(s, present, key, val) ==
    IF s.err # NoErr \/ ~present THEN s
    ELSE [addComma(s) EXCEPT !.b = @ \o key \o val.w, !.err = val.err]
EncFailed(s) == FailAt(s.err, s.b)
EncEnd(s) == IF s.err # NoErr THEN EncFailed(s) ELSE Ok(Append(s.b, "}"))

\* Sound.MarshalJSONFast with the fields in the order of their declaration
Sound_MarshalJSONFast_declared(s) ==
    LET s0 == EncStart(<<"{">>)
        s1 == Field(s0, s.Name # <<>>, <<"\"", "n", "a", "m", "e", "\"", ":">>, Ok(appendQuote(s.Name)))
        s2 == Field(s1, s.Critical # 0, <<"\"", "c", "r", "i", "t", "i", "c", "a", "l", "\"", ":">>, Ok(AppendInt(s.Critical)))
        s3 == Field(s2, s.Volume # 0, <<"\"", "v", "o", "l", "u", "m", "e", "\"", ":">>, Ok(AppendFloat(s.Volume)))
    IN  EncEnd(s3)

\* Sound.MarshalJSONFast
Sound_MarshalJSONFast(s) ==
    LET s0 == EncStart(<<"{">>)
        s1 == Field(s0, s.Critical # 0, <<"\"", "c", "r", "i", "t", "i", "c", "a", "l", "\"", ":">>, Ok(AppendInt(s.Critical)))
        s2 == Field(s1, s.Name # <<>>, <<"\"", "n", "a", "m", "e", "\"", ":">>, Ok(appendQuote(s.Name)))
        s3 == Field(s2, s.Volume # 0, <<"\"", "v", "o", "l", "u", "m", "e", "\"", ":">>, Ok(AppendFloat(s.Volume)))
    IN  EncEnd(s3)

addString(key, val) == <<"\"">> \o key \o <<"\"", ":">> \o appendQuote(val)
addStringSlice(key, vals) ==
    <<"\"">> \o key \o <<"\"", ":", "[">> \o addStringSliceLoop(vals, 1) \o <<"]">>

\* Alert.MarshalJSONFast
Alert_MarshalJSONFast(a) ==
    LET s0 == EncStart(<<"{">>)
        s1 == Field(s0, a.Title # <<>>, <<>>, Ok(addString(<<"t", "i", "t", "l", "e">>, a.Title)))
        s2 == Field(s1, a.Subtitle # <<>>, <<>>, Ok(addString(<<"s", "u", "b", "t", "i", "t", "l", "e">>, a.Subtitle)))
        s3 == Field(s2, a.Body # <<>>, <<>>, Ok(addString(<<"b", "o", "d", "y">>, a.Body)))
        s4 == Field(s3, a.LaunchImage # <<>>, <<>>,
                    Ok(addString(<<"l", "a", "u", "n", "c", "h", "-", "i", "m", "a", "g", "e">>, a.LaunchImage)))
        s5 == Field(s4, a.LocKey # <<>>, <<>>, Ok(addString(<<"l", "o", "c", "-", "k", "e", "y">>, a.LocKey)))
        s6 == Field(s5, Len(a.LocArgs) > 0, <<>>,
                    Ok(addStringSlice(<<"l", "o", "c", "-", "a", "r", "g", "s">>, a.LocArgs)))
        s7 == Field(s6, a.TitleLocKey # <<>>, <<>>,
                    Ok(addString(<<"t", "i", "t", "l", "e", "-", "l", "o", "c", "-", "k", "e", "y">>, a.TitleLocKey)))
        s8 == Field(s7, Len(a.TitleLocArgs) > 0, <<>>,
                    Ok(addStringSlice(<<"t", "i", "t", "l", "e", "-", "l", "o", "c", "-", "a", "r", "g", "s">>, a.TitleLocArgs)))
        s9 == Field(s8, a.SubtitleLocKey # <<>>, <<>>,
                    Ok(addString(<<"s", "u", "b", "t", "i", "t", "l", "e", "-", "l", "o", "c", "-", "k", "e", "y">>, a.SubtitleLocKey)))
        s10 == Field(s9, Len(a.SubtitleLocArgs) > 0, <<>>,
                     Ok(addStringSlice(<<"s", "u", "b", "t", "i", "t", "l", "e", "-", "l", "o", "c", "-", "a", "r", "g", "s">>, a.SubtitleLocArgs)))
        s11 == Field(s10, a.ActionLocKey # <<>>, <<>>,
                     Ok(addString(<<"a", "c", "t", "i", "o", "n", "-", "l", "o", "c", "-", "k", "e", "y">>, a.ActionLocKey)))
    IN  EncEnd(s11)

\* the range loop of APS.MarshalJSONFast over ContentState or Attributes
RECURSIVE APSMapLoop(_, _, _)
APSMapLoop(b, kv, i) ==
    IF i > Len(kv) THEN Ok(b)
    ELSE LET b1 == b \o (IF i > 1 THEN <<",">> ELSE <<>>)
                     \o appendQuote(kv[i].k) \o <<":">>
             r == EncodeValue(b1, kv[i].v)
         IN  IF r.err # NoErr THEN Failed(r) ELSE APSMapLoop(r.b, kv, i + 1)

APSMap(kv) ==
    LET r == APSMapLoop(<<"{">>, kv, 1)
    IN  IF r.err # NoErr THEN Failed(r) ELSE Ok(Append(r.b, "}"))

\* APS.MarshalJSONFast
APS_MarshalJSONFast(aps) ==
    LET alert == IF aps.Alert.t \in {"Alert", "*Alert"}
                   THEN Ok(Alert_MarshalJSONFast(aps.Alert.alert).b)
                 ELSE IF aps.Alert.t = "string" THEN Ok(appendQuote(aps.Alert.s))
                 ELSE Fail(ErrInvalidType)
        badge == IF aps.Badge.t = "int" THEN Ok(AppendInt(aps.Badge.v))
                 ELSE Fail(ErrInvalidType)
        sound == IF aps.Sound.t \in {"Sound", "*Sound"}
                   THEN Ok(Sound_MarshalJSONFast(aps.Sound.sound).b)
                 ELSE IF aps.Sound.t = "string" THEN Ok(appendQuote(aps.Sound.s))
                 ELSE Fail(ErrInvalidType)
        score == IF aps.RelevanceScore.t = "float64"
                   THEN Ok(AppendFloat(aps.RelevanceScore.tenths))
                 ELSE Fail(ErrInvalidType)
        s0 == EncStart(<<"{">>)
        s1 == Field(s0, aps.Alert # GoNil, <<"\"", "a", "l", "e", "r", "t", "\"", ":">>, alert)
        s2 == Field(s1, aps.Badge # GoNil, <<"\"", "b", "a", "d", "g", "e", "\"", ":">>, badge)
        s3 == Field(s2, aps.Sound # GoNil, <<"\"", "s", "o", "u", "n", "d", "\"", ":">>, sound)
        s4 == Field(s3, aps.ContentAvailable # GoNil, <<"\"", "c", "o", "n", "t", "e", "n", "t", "-", "a", "v", "a", "i", "l", "a", "b", "l", "e", "\"", ":", "1">>, Ok(<<>>))
        s5 == Field(s4, aps.MutableContent # GoNil, <<"\"", "m", "u", "t", "a", "b", "l", "e", "-", "c", "o", "n", "t", "e", "n", "t", "\"", ":", "1">>, Ok(<<>>))
        s6 == Field(s5, aps.Category # <<>>, <<"\"", "c", "a", "t", "e", "g", "o", "r", "y", "\"", ":">>, Ok(appendQuote(aps.Category)))
        s7 == Field(s6, aps.ThreadID # <<>>, <<"\"", "t", "h", "r", "e", "a", "d", "-", "i", "d", "\"", ":">>, Ok(appendQuote(aps.ThreadID)))
        s8 == Field(s7, aps.InterruptionLevel # <<>>, <<"\"", "i", "n", "t", "e", "r", "r", "u", "p", "t", "i", "o", "n", "-", "l", "e", "v", "e", "l", "\"", ":">>,
                    Ok(appendQuote(aps.InterruptionLevel)))
        s9 == Field(s8, aps.RelevanceScore # GoNil, <<"\"", "r", "e", "l", "e", "v", "a", "n", "c", "e", "-", "s", "c", "o", "r", "e", "\"", ":">>, score)
        s10 == Field(s9, ~aps.StaleDate.isNil, <<"\"", "s", "t", "a", "l", "e", "-", "d", "a", "t", "e", "\"", ":">>,
                     IF aps.StaleDate.isNil THEN Ok(<<>>) ELSE Ok(AppendInt(aps.StaleDate.v)))
        s11 == Field(s10, Len(aps.FilterCriteria) > 0, <<"\"", "f", "i", "l", "t", "e", "r", "-", "c", "r", "i", "t", "e", "r", "i", "a", "\"", ":">>,
                     Ok(appendQuote(aps.FilterCriteria)))
        s12 == Field(s11, ~aps.Timestamp.isNil, <<"\"", "t", "i", "m", "e", "s", "t", "a", "m", "p", "\"", ":">>,
                     IF aps.Timestamp.isNil THEN Ok(<<>>) ELSE Ok(AppendInt(aps.Timestamp.v)))
        s13 == Field(s12, aps.TargetContentID # <<>>, <<"\"", "t", "a", "r", "g", "e", "t", "-", "c", "o", "n", "t", "e", "n", "t", "-", "i", "d", "\"", ":">>,
                     Ok(appendQuote(aps.TargetContentID)))
        s14 == Field(s13, Len(aps.ContentState.kv) > 0, <<"\"", "c", "o", "n", "t", "e", "n", "t", "-", "s", "t", "a", "t", "e", "\"", ":">>,
                     APSMap(aps.ContentState.kv))
        s15 == Field(s14, aps.Event # <<>>, <<"\"", "e", "v", "e", "n", "t", "\"", ":">>, Ok(appendQuote(aps.Event)))
        s16 == Field(s15, aps.DismissalDate # 0, <<"\"", "d", "i", "s", "m", "i", "s", "s", "a", "l", "-", "d", "a", "t", "e", "\"", ":">>,
                     Ok(AppendInt(aps.DismissalDate)))
        s17 == Field(s16, aps.AttributesType # <<>>, <<"\"", "a", "t", "t", "r", "i", "b", "u", "t", "e", "s", "-", "t", "y", "p", "e", "\"", ":">>,
                     Ok(appendQuote(aps.AttributesType)))
        s18 == Field(s17, Len(aps.Attributes.kv) > 0, <<"\"", "a", "t", "t", "r", "i", "b", "u", "t", "e", "s", "\"", ":">>,
                     APSMap(aps.Attributes.kv))
    IN  EncEnd(s18)

\* marshalCustomData(b, data), from entry i on
RECURSIVE marshalCustomData(_, _, _)
marshalCustomData(b, data, i) ==
    IF i > Len(data) THEN Ok(b)
    ELSE LET b1 == b \o (IF i > 1 THEN <<",">> ELSE <<>>)
                     \o marshalCustomData_appendQuote(data[i].k) \o <<":">>
             r == EncodeValue(b1, data[i].v)
         IN  IF r.err # NoErr THEN Failed(r) ELSE marshalCustomData(r.b, data, i + 1)

\* Payload.MarshalJSONFast
Payload_MarshalJSONFast(p) ==
    PayloadBytes(APS_MarshalJSONFast(p.APS),
                 marshalCustomData(<<>>, p.CustomData.kv, 1),
                 Len(p.CustomData.kv) > 0)

\* ------------------------------------------- reading the output back
\* json.Unmarshal as the tests use it on the encoders' output: the value
\* parsed from a byte sequence, objects keeping their keys in the order
\* read. Numbers are read without exponent, which no encoder here writes.
At(s, i) == IF i <= Len(s) THEN s[i] ELSE "<eof>"
HexVal(c) == IF \E i \in 1..16 : hex[i] = c THEN (CHOOSE i \in 1..16 : hex[i] = c) - 1 ELSE -1
ByteOf(code) ==
    IF code \in 32..126 THEN Printable[code - 31]
    ELSE IF code = 1 THEN "<01>" ELSE IF code = 7 THEN "<07>"
    ELSE IF code = 8 THEN "<08>" ELSE IF code = 9 THEN "<09>"
    ELSE IF code = 10 THEN "<0a>" ELSE IF code = 12 THEN "<0c>"
    ELSE IF code = 13 THEN "<0d>" ELSE IF code = 127 THEN "<7f>"
    ELSE "<other>"
Bad == [ok |-> FALSE, i |-> 0]
Good(v, i) == [ok |-> TRUE, v |-> v, i |-> i]
JStr(s) == [j |-> "str", s |-> s]
JNum(neg, int, frac) == [j |-> "num", neg |-> neg, int |-> int, frac |-> frac]
JBool(b) == [j |-> "bool", b |-> b]
JNull == [j |-> "null"]
JObj(kv) == [j |-> "obj", kv |-> kv]
JArr(el) == [j |-> "arr", el |-> el]
JInvalid == [j |-> "invalid"]

RECURSIVE SkipWS(_, _)
SkipWS(s, i) == IF At(s, i) \in {" ", "<0a>", "<09>", "<0d>"} THEN SkipWS(s, i + 1) ELSE i

\* the body of a string from position i on, acc being what was read of it
RECURSIVE ParseStringBody(_, _, _)
ParseStringBody(s, i, acc) ==
    LET c == At(s, i)
        e == At(s, i + 1)
    IN  IF c = "<eof>" THEN Bad
        ELSE IF c = "\"" THEN Good(acc, i + 1)
        ELSE IF c = "\\" THEN
          IF e \in {"\"", "\\", "/"} THEN ParseStringBody(s, i + 2, Append(acc, e))
          ELSE IF e = "b" THEN ParseStringBody(s, i + 2, Append(acc, "<08>"))
          ELSE IF e = "f" THEN ParseStringBody(s, i + 2, Append(acc, "<0c>"))
          ELSE IF e = "n" THEN ParseStringBody(s, i + 2, Append(acc, "<0a>"))
          ELSE IF e = "r" THEN ParseStringBody(s, i + 2, Append(acc, "<0d>"))
          ELSE IF e = "t" THEN ParseStringBody(s, i + 2, Append(acc, "<09>"))
          ELSE IF e = "u" THEN
            LET h == [k \in 1..4 |-> HexVal(At(s, i + 1 + k))]
            IN  IF \E k \in 1..4 : h[k] < 0 THEN Bad
                ELSE ParseStringBody(s, i + 6,
                       Append(acc, ByteOf(((h[1] * 16 + h[2]) * 16 + h[3]) * 16 + h[4])))
          ELSE Bad
        ELSE IF Code(c) < 32 THEN Bad
        ELSE ParseStringBody(s, i + 1, Append(acc, c))

IsDigit(c) == c \in {"0", "1", "2", "3", "4", "5", "6", "7", "8", "9"}
RECURSIVE DigitsEnd(_, _)
DigitsEnd(s, i) == IF IsDigit(At(s, i)) THEN DigitsEnd(s, i + 1) ELSE i
RECURSIVE StripZeros(_)
StripZeros(d) ==
    IF d # <<>> /\ d[Len(d)] = "0" THEN StripZeros(SubSeq(d, 1, Len(d) - 1)) ELSE d

ParseNumber(s, i) ==
    LET neg == At(s, i) = "-"
        j == IF neg THEN i + 1 ELSE i
        k == DigitsEnd(s, j)
        m == IF At(s, k) = "." THEN DigitsEnd(s, k + 1) ELSE k
    IN  IF k = j \/ (At(s, j) = "0" /\ k > j + 1) THEN Bad
        ELSE IF At(s, k) = "." /\ m = k + 1 THEN Bad
        ELSE IF At(s, m) \in {"e", "E"} THEN Bad
        ELSE Good(JNum(neg, SubSeq(s, j, k - 1),
                       IF m > k THEN StripZeros(SubSeq(s, k + 1, m - 1)) ELSE <<>>), m)

StartsWith(s, i, lit) ==
    i + Len(lit) - 1 <= Len(s) /\ SubSeq(s, i, i + Len(lit) - 1) = lit

RECURSIVE ParseValue(_, _)
RECURSIVE ParseMembers(_, _, _)
RECURSIVE ParseElements(_, _, _)

\* the members of an object from position i on (a key is expected at i)
ParseMembers(s, i, kv) ==
    IF At(s, i) # "\"" THEN Bad
    ELSE LET k == ParseStringBody(s, i + 1, <<>>)
         IN  IF ~k.ok THEN Bad
             ELSE LET c == SkipWS(s, k.i)
                  IN  IF At(s, c) # ":" THEN Bad
                      ELSE LET v == ParseValue(s, c + 1)
                           IN  IF ~v.ok THEN Bad
                               ELSE LET kv1 == Append(kv, [k |-> k.v, v |-> v.v])
                                        d == SkipWS(s, v.i)
                                    IN  IF At(s, d) = "}" THEN Good(JObj(kv1), d + 1)
                                        ELSE IF At(s, d) = ","
                                          THEN ParseMembers(s, SkipWS(s, d + 1), kv1)
                                        ELSE Bad

\* the elements of an array from position i on (a value is expected at i)
ParseElements(s, i, el) ==
    LET v == ParseValue(s, i)
    IN  IF ~v.ok THEN Bad
        ELSE LET el1 == Append(el, v.v)
                 d == SkipWS(s, v.i)
             IN  IF At(s, d) = "]" THEN Good(JArr(el1), d + 1)
                 ELSE IF At(s, d) = "," THEN ParseElements(s, d + 1, el1)
                 ELSE Bad

ParseValue(s, i0) ==
    LET i == SkipWS(s, i0)
        c == At(s, i)
    IN  IF c = "{" THEN
          (IF At(s, SkipWS(s, i + 1)) = "}" THEN Good(JObj(<<>>), SkipWS(s, i + 1) + 1)
           ELSE ParseMembers(s, SkipWS(s, i + 1), <<>>))
        ELSE IF c = "[" THEN
          (IF At(s, SkipWS(s, i + 1)) = "]" THEN Good(JArr(<<>>), SkipWS(s, i + 1) + 1)
           ELSE ParseElements(s, i + 1, <<>>))
        ELSE IF c = "\"" THEN
          (LET r == ParseStringBody(s, i + 1, <<>>)
           IN  IF r.ok THEN Good(JStr(r.v), r.i) ELSE Bad)
        ELSE IF StartsWith(s, i, <<"t", "r", "u", "e">>) THEN Good(JBool(TRUE), i + 4)
        ELSE IF StartsWith(s, i, <<"f", "a", "l", "s", "e">>) THEN Good(JBool(FALSE), i + 5)
        ELSE IF StartsWith(s, i, <<"n", "u", "l", "l">>) THEN Good(JNull, i + 4)
        ELSE IF c = "-" \/ IsDigit(c) THEN ParseNumber(s, i)
        ELSE Bad

\* the value a byte sequence holds, JInvalid if it is not one JSON text
Parse(s) ==
    LET r == ParseValue(s, 1)
    IN  IF r.ok /\ SkipWS(s, r.i) = Len(s) + 1 THEN r.v ELSE JInvalid

\* duplicateKeyChecker: some object of the value has a key twice
RECURSIVE HasDuplicateKey(_)
HasDuplicateKey(v) ==
    IF v.j = "obj"
      THEN \/ \E a, b \in 1..Len(v.kv) : a < b /\ v.kv[a].k = v.kv[b].k
           \/ \E a \in 1..Len(v.kv) : HasDuplicateKey(v.kv[a].v)
    ELSE IF v.j = "arr" THEN \E a \in 1..Len(v.el) : HasDuplicateKey(v.el[a])
    ELSE FALSE

\* the keys of an object in the order read
Keys(v) == [a \in 1..Len(v.kv) |-> v.kv[a].k]
KeySet(v) == {v.kv[a].k : a \in 1..Len(v.kv)}
\* the value of a key as json.Unmarshal keeps it: the last one read
Member(v, k) ==
    v.kv[CHOOSE a \in 1..Len(v.kv) :
            v.kv[a].k = k /\ \A b \in (a + 1)..Len(v.kv) : v.kv[b].k # k].v

\* two values hold the same key/value pairs at every level, in whatever
\* order the keys of an object come, arrays element by element
RECURSIVE SameJSON(_, _)
SameJSON(v, w) ==
    IF v.j # w.j THEN FALSE
    ELSE IF v.j = "obj"
      THEN /\ KeySet(v) = KeySet(w)
           /\ \A k \in KeySet(v) : SameJSON(Member(v, k), Member(w, k))
    ELSE IF v.j = "arr"
      THEN /\ Len(v.el) = Len(w.el)
           /\ \A a \in 1..Len(v.el) : SameJSON(v.el[a], w.el[a])
    ELSE IF v.j = "invalid" THEN FALSE
    ELSE v = w

\* ------------------------------------------------ the reflective encoder
\* encoding/json applied to the same values, given as the value its output
\* holds (keys in the order written), or its error
StdOk(v) == [err |-> NoErr, v |-> v]
StdFail == [err |-> [kind |-> "UnsupportedTypeError"], v |-> JInvalid]
JInt(i) == JNum(i < 0, Digits(IF i < 0 THEN -i ELSE i), <<>>)
JFloat(tenths) ==
    LET a == IF tenths < 0 THEN -tenths ELSE tenths
    IN  JNum(tenths < 0, Digits(a \div 10),
             IF a % 10 = 0 THEN <<>> ELSE <<hex[(a % 10) + 1]>>)

base64 == <<"A", "B", "C", "D", "E", "F", "G", "H", "I", "J", "K", "L", "M", "N", "O", "P", "Q", "R", "S", "T", "U", "V", "W", "X", "Y", "Z", "a", "b", "c", "d", "e", "f", "g", "h", "i", "j", "k", "l", "m", "n", "o", "p", "q", "r", "s", "t", "u", "v", "w", "x", "y", "z", "0", "1", "2", "3", "4", "5", "6", "7", "8", "9", "+", "/">>
\* base64.StdEncoding, which encoding/json applies to a []byte
RECURSIVE Base64(_)
Base64(s) ==
    IF s = <<>> THEN <<>>
    ELSE LET len == Len(s)
             b1 == Code(s[1])
             b2 == IF len >= 2 THEN Code(s[2]) ELSE 0
             b3 == IF len >= 3 THEN Code(s[3]) ELSE 0
         IN  <<base64[(b1 \div 4) + 1],
               base64[((b1 % 4) * 16 + (b2 \div 16)) + 1],
               IF len >= 2 THEN base64[((b2 % 16) * 4 + (b3 \div 64)) + 1] ELSE "=",
               IF len >= 3 THEN base64[(b3 % 64) + 1] ELSE "=">>
             \o Base64(SubSeq(s, 4, len))

\* byte-wise order of two strings, the order encoding/json writes map keys in
RECURSIVE LessBytes(_, _)
LessBytes(a, b) ==
    IF b = <<>> THEN FALSE
    ELSE IF a = <<>> THEN TRUE
    ELSE IF Head(a) = Head(b) THEN LessBytes(Tail(a), Tail(b))
    ELSE Code(Head(a)) < Code(Head(b))

RECURSIVE InsertSorted(_, _)
InsertSorted(kv, e) ==
    IF kv = <<>> THEN <<e>>
    ELSE IF LessBytes(e.k, Head(kv).k) THEN <<e>> \o kv
    ELSE <<Head(kv)>> \o InsertSorted(Tail(kv), e)

RECURSIVE SortKV(_)
SortKV(kv) == IF kv = <<>> THEN <<>> ELSE InsertSorted(SortKV(Tail(kv)), Head(kv))

\* the fields of a struct that are written (omitempty), or the first error
RECURSIVE StdFields(_, _)
StdFields(fs, acc) ==
    IF fs = <<>> THEN StdOk(JObj(acc))
    ELSE IF ~Head(fs).present THEN StdFields(Tail(fs), acc)
    ELSE IF Head(fs).r.err # NoErr THEN StdFail
    ELSE StdFields(Tail(fs), Append(acc, [k |-> Head(fs).k, v |-> Head(fs).r.v]))
F(present, k, r) == [present |-> present, k |-> k, r |-> r]

StdStrings(l) == JArr([i \in 1..Len(l) |-> JStr(l[i])])

\* json.Marshal of a Sound: the fields in the order of their declaration
StdSound(s) ==
    StdFields(<<F(s.Name # <<>>, <<"n", "a", "m", "e">>, StdOk(JStr(s.Name))),
                F(s.Critical # 0, <<"c", "r", "i", "t", "i", "c", "a", "l">>, StdOk(JInt(s.Critical))),
                F(s.Volume # 0, <<"v", "o", "l", "u", "m", "e">>, StdOk(JFloat(s.Volume)))>>, <<>>)

\* json.Marshal of an Alert
StdAlert(a) ==
    StdFields(<<F(a.Title # <<>>, <<"t", "i", "t", "l", "e">>, StdOk(JStr(a.Title))),
                F(a.Subtitle # <<>>, <<"s", "u", "b", "t", "i", "t", "l", "e">>, StdOk(JStr(a.Subtitle))),
                F(a.Body # <<>>, <<"b", "o", "d", "y">>, StdOk(JStr(a.Body))),
                F(a.LaunchImage # <<>>, <<"l", "a", "u", "n", "c", "h", "-", "i", "m", "a", "g", "e">>, StdOk(JStr(a.LaunchImage))),
                F(a.ActionLocKey # <<>>, <<"a", "c", "t", "i", "o", "n", "-", "l", "o", "c", "-", "k", "e", "y">>, StdOk(JStr(a.ActionLocKey))),
                F(a.LocKey # <<>>, <<"l", "o", "c", "-", "k", "e", "y">>, StdOk(JStr(a.LocKey))),
                F(Len(a.LocArgs) > 0, <<"l", "o", "c", "-", "a", "r", "g", "s">>, StdOk(StdStrings(a.LocArgs))),
                F(a.TitleLocKey # <<>>, <<"t", "i", "t", "l", "e", "-", "l", "o", "c", "-", "k", "e", "y">>, StdOk(JStr(a.TitleLocKey))),
                F(Len(a.TitleLocArgs) > 0, <<"t", "i", "t", "l", "e", "-", "l", "o", "c", "-", "a", "r", "g", "s">>,
                  StdOk(StdStrings(a.TitleLocArgs))),
                F(a.SubtitleLocKey # <<>>, <<"s", "u", "b", "t", "i", "t", "l", "e", "-", "l", "o", "c", "-", "k", "e", "y">>,
                  StdOk(JStr(a.SubtitleLocKey))),
                F(Len(a.SubtitleLocArgs) > 0, <<"s", "u", "b", "t", "i", "t", "l", "e", "-", "l", "o", "c", "-", "a", "r", "g", "s">>,
                  StdOk(StdStrings(a.SubtitleLocArgs)))>>, <<>>)

RECURSIVE StdValue(_)
RECURSIVE StdMapEntries(_, _, _)
RECURSIVE StdElements(_, _, _)

StdMapEntries(kv, i, acc) ==
    IF i > Len(kv) THEN StdOk(JObj(acc))
    ELSE LET r == StdValue(kv[i].v)
         IN  IF r.err # NoErr THEN StdFail
             ELSE StdMapEntries(kv, i + 1, Append(acc, [k |-> kv[i].k, v |-> r.v]))

StdElements(l, i, acc) ==
    IF i > Len(l) THEN StdOk(JArr(acc))
    ELSE LET r == StdValue(l[i])
         IN  IF r.err # NoErr THEN StdFail ELSE StdElements(l, i + 1, Append(acc, r.v))

\* json.Marshal of a dynamic value
StdValue(v) ==
    CASE v.t = "string" -> StdOk(JStr(v.s))
      [] v.t \in {"int", "int64", "EpochTime", "*EpochTime"} -> StdOk(JInt(v.v))
      [] v.t = "float64" -> StdOk(JFloat(v.tenths))
      [] v.t = "bool" -> StdOk(JBool(v.b))
      [] v.t = "nil" -> StdOk(JNull)
      [] v.t = "[]byte" -> StdOk(JStr(Base64(v.s)))
      [] v.t = "[]string" -> StdOk(StdStrings(v.ls))
      [] v.t \in {"[]int", "[]int64"} -> StdOk(JArr([i \in 1..Len(v.li) |-> JInt(v.li[i])]))
      [] v.t = "[]float64" -> StdOk(JArr([i \in 1..Len(v.lf) |-> JFloat(v.lf[i])]))
      [] v.t = "Marshaler" ->
           IF v.res.err # NoErr \/ Parse(v.res.b) = JInvalid THEN StdFail
           ELSE StdOk(Parse(v.res.b))
      [] v.t = "map" -> IF v.isNil THEN StdOk(JNull) ELSE StdMapEntries(SortKV(v.kv), 1, <<>>)
      [] v.t = "[]any" -> StdElements(v.la, 1, <<>>)
      [] v.t \in {"Alert", "*Alert"} -> StdAlert(v.alert)
      [] v.t \in {"Sound", "*Sound"} -> StdSound(v.sound)
      [] OTHER -> StdFail

StdPtr(p) == IF p.isNil THEN StdOk(JNull) ELSE StdOk(JInt(p.v))

\* json.Marshal of an APS: its struct tags, in the order of declaration
StdAPS(aps) ==
    StdFields(
      <<F(aps.Alert # GoNil, <<"a", "l", "e", "r", "t">>, StdValue(aps.Alert)),
        F(aps.Badge # GoNil, <<"b", "a", "d", "g", "e">>, StdValue(aps.Badge)),
        F(aps.Sound # GoNil, <<"s", "o", "u", "n", "d">>, StdValue(aps.Sound)),
        F(aps.ContentAvailable # GoNil, <<"c", "o", "n", "t", "e", "n", "t", "-", "a", "v", "a", "i", "l", "a", "b", "l", "e">>,
          StdValue(aps.ContentAvailable)),
        F(aps.MutableContent # GoNil, <<"m", "u", "t", "a", "b", "l", "e", "-", "c", "o", "n", "t", "e", "n", "t">>, StdValue(aps.MutableContent)),
        F(aps.Category # <<>>, <<"c", "a", "t", "e", "g", "o", "r", "y">>, StdOk(JStr(aps.Category))),
        F(aps.ThreadID # <<>>, <<"t", "h", "r", "e", "a", "d", "-", "i", "d">>, StdOk(JStr(aps.ThreadID))),
        F(aps.InterruptionLevel # <<>>, <<"i", "n", "t", "e", "r", "r", "u", "p", "t", "i", "o", "n", "-", "l", "e", "v", "e", "l">>,
          StdOk(JStr(aps.InterruptionLevel))),
        F(aps.RelevanceScore # GoNil, <<"r", "e", "l", "e", "v", "a", "n", "c", "e", "-", "s", "c", "o", "r", "e">>, StdValue(aps.RelevanceScore)),
        F(~aps.StaleDate.isNil, <<"s", "t", "a", "l", "e", "-", "d", "a", "t", "e">>, StdPtr(aps.StaleDate)),
        F(aps.FilterCriteria # <<>>, <<"f", "i", "l", "t", "e", "r", "-", "c", "r", "i", "t", "e", "r", "i", "a">>, StdOk(JStr(aps.FilterCriteria))),
        F(~aps.Timestamp.isNil, <<"t", "i", "m", "e", "s", "t", "a", "m", "p">>, StdPtr(aps.Timestamp)),
        F(aps.TargetContentID # <<>>, <<"t", "a", "r", "g", "e", "t", "-", "c", "o", "n", "t", "e", "n", "t", "-", "i", "d">>,
          StdOk(JStr(aps.TargetContentID))),
        F(Len(aps.ContentState.kv) > 0, <<"c", "o", "n", "t", "e", "n", "t", "-", "s", "t", "a", "t", "e">>, StdValue(aps.ContentState)),
        F(aps.Event # <<>>, <<"e", "v", "e", "n", "t">>, StdOk(JStr(aps.Event))),
        F(aps.DismissalDate # 0, <<"d", "i", "s", "m", "i", "s", "s", "a", "l", "-", "d", "a", "t", "e">>, StdOk(JInt(aps.DismissalDate))),
        F(aps.AttributesType # <<>>, <<"a", "t", "t", "r", "i", "b", "u", "t", "e", "s", "-", "t", "y", "p", "e">>, StdOk(JStr(aps.AttributesType))),
        F(Len(aps.Attributes.kv) > 0, <<"a", "t", "t", "r", "i", "b", "u", "t", "e", "s">>, StdValue(aps.Attributes))>>, <<>>)

\* the map Payload.MarshalJSON hands to json.Marshal: CustomData with the
\* key "aps" set to the APS, in the order json.Marshal writes it
RECURSIVE WithoutKey(_, _)
WithoutKey(kv, k) ==
    IF kv = <<>> THEN <<>>
    ELSE IF Head(kv).k = k THEN WithoutKey(Tail(kv), k)
    ELSE <<Head(kv)>> \o WithoutKey(Tail(kv), k)

\* Payload.MarshalJSON
Payload_MarshalJSON(p) ==
    LET a == StdAPS(p.APS)
        c == StdMapEntries(WithoutKey(p.CustomData.kv, <<"a", "p", "s">>), 1, <<>>)
    IN  IF a.err # NoErr \/ c.err # NoErr THEN StdFail
        ELSE StdOk(JObj(SortKV(Append(c.v.kv, [k |-> <<"a", "p", "s">>, v |-> a.v]))))

\* ------------------------------------------- inputs of the encoders
\* how deep a dynamic value is nested in maps and lists
MaxDepth == 2

\* v under d levels of nesting, a list around a map around a list ...
RECURSIVE Nest(_, _)
Nest(v, d) ==
    IF d = 0 THEN v
    ELSE IF d % 2 = 1 THEN GoList(<<GoInt(1), Nest(v, d - 1)>>)
    ELSE GoMap(<<KV(<<"i", "n">>, GoString(<<"x">>)), KV(<<"z">>, Nest(v, d - 1))>>)

\* dynamic values of every type EncodeValue has a case for
SupportedLeaves ==
    {GoString(<<"r", "u", "n">>), GoString(<<"a", "\"", "\\">>), GoString(<<"<0a>">>),
     GoString(<<"<01>">>), GoString(<<"<7f>">>),
     GoInt(-45), GoInt64(10), GoFloat64(15), GoFloat64(-1), GoBool(TRUE), GoBool(FALSE),
     GoNil, GoBytes(<<"t", "e", "s", "t">>), GoEpochTime(1672531200), GoEpochTimePtr(1672531200),
     GoStrings(<<<<"a">>, <<"b">>>>), GoInts(<<1, 2>>), GoInt64s(<<1, 2>>),
     GoFloat64s(<<10, 15>>), GoMarshaler(Ok(<<"\"", "c", "u", "s", "t", "o", "m", "_", "m", "a", "r", "s", "h", "a", "l", "e", "d", "\"">>)),
     GoMap(<<>>), GoList(<<>>),
     GoList(<<GoString(<<"a">>), GoInt(1), GoBool(TRUE)>>),
     GoMap(<<KV(<<"k", "e", "y">>, GoString(<<"v", "a", "l", "u", "e">>)), KV(<<"n", "u", "m">>, GoInt(123))>>),
     GoMap(<<KV(<<"n", "u", "m">>, GoInt(123)), KV(<<"k", "e", "y">>, GoString(<<"v", "a", "l", "u", "e">>))>>)}

\* values of a type EncodeValue has no case for, and a failing MarshalJSON
UnsupportedLeaves == {GoChan, [t |-> "func"]}
FailingMarshaler == GoMarshaler(Fail([kind |-> "marshal"]))

DynValues ==
    SupportedLeaves
    \cup {Nest(v, d) : v \in UnsupportedLeaves \cup {GoInt(7), FailingMarshaler},
                       d \in 0..MaxDepth}

EncMaps ==
    {GoMap(<<KV(<<"k">>, v)>>) : v \in DynValues}
    \cup {GoMap(<<KV(<<"a">>, GoInt(1)), KV(<<"k">>, v)>>) : v \in {GoInt(2), GoChan}}
    \cup {GoMap(<<KV(<<"k">>, v), KV(<<"a">>, GoInt(1))>>) : v \in {GoInt(2), GoChan}}

FullAlert ==
    [Title |-> <<"T">>, Subtitle |-> <<"S">>, Body |-> <<"b", "\"", "<01>">>,
     LaunchImage |-> <<"i", ".", "p", "n", "g">>, ActionLocKey |-> <<"A", "C", "T">>, LocKey |-> <<"L", "K">>,
     LocArgs |-> <<<<"x">>, <<"y">>>>, TitleLocKey |-> <<"T", "K">>,
     TitleLocArgs |-> <<<<"t">>>>, SubtitleLocKey |-> <<"S", "K">>,
     SubtitleLocArgs |-> <<<<"s">>>>]
Alerts ==
    {ZeroAlert, FullAlert, [ZeroAlert EXCEPT !.Body = <<"b", "o", "d", "y">>],
     [ZeroAlert EXCEPT !.Title = <<"T">>, !.ActionLocKey = <<"A", "C", "T">>],
     [ZeroAlert EXCEPT !.ActionLocKey = <<"A", "C", "T">>, !.LocKey = <<"L", "K">>]}
Sounds ==
    {ZeroSound, [Name |-> <<"a", "l", "a", "r", "m", ".", "a", "i", "f", "f">>, Critical |-> 1, Volume |-> 5],
     [Name |-> <<"d", "e", "f", "a", "u", "l", "t">>, Critical |-> 0, Volume |-> 10],
     [Name |-> <<>>, Critical |-> 1, Volume |-> 0],
     [Name |-> <<"d", "\\", "<0a>">>, Critical |-> 0, Volume |-> 0]}

StaticAPSs ==
    {ZeroAPS,
     [ZeroAPS EXCEPT !.Alert = GoString(<<"s", "i", "m", "p", "l", "e", " ", "a", "l", "e", "r", "t">>)],
     [ZeroAPS EXCEPT !.Alert = GoString(<<"a", "\"", "\\", "<01>", "<7f>">>)],
     [ZeroAPS EXCEPT !.ContentAvailable = GoInt(1), !.MutableContent = GoInt(1)],
     [ZeroAPS EXCEPT !.ContentAvailable = GoInt(0)],
     [ZeroAPS EXCEPT !.Alert = GoInt(123)],
     [ZeroAPS EXCEPT !.Alert = GoString(<<"H", "i">>), !.RelevanceScore = GoInt(1)],
     WithOtherFields([ZeroAPS EXCEPT !.Alert = GoAlertPtr(FullAlert), !.Badge = GoInt(1),
                                     !.Sound = GoString(<<"d", "e", "f", "a", "u", "l", "t">>),
                                     !.ContentAvailable = GoInt(1),
                                     !.MutableContent = GoInt(1),
                                     !.RelevanceScore = GoFloat64(5)])}
    \cup {[ZeroAPS EXCEPT !.Alert = GoAlert(a)] : a \in Alerts}
    \cup {[ZeroAPS EXCEPT !.Sound = GoSound(s)] : s \in Sounds}
    \cup {[ZeroAPS EXCEPT !.Alert = GoAlertPtr(FullAlert), !.Sound = GoSoundPtr(s)] :
            s \in Sounds}

DynamicAPSs ==
    {[ZeroAPS EXCEPT !.ContentState = m] : m \in EncMaps}
    \cup {[ZeroAPS EXCEPT !.Alert = GoString(<<"H", "i">>), !.Attributes = m,
                          !.AttributesType = <<"t", "y", "p", "e">>] : m \in EncMaps}
    \cup {WithOtherFields([ZeroAPS EXCEPT !.Badge = GoInt(1), !.ContentState = Live,
                                          !.Attributes = Attr1])}

Customs ==
    {NilMap, GoMap(<<>>),
     GoMap(<<KV(<<"a", "p", "s">>, GoInt(1))>>),
     GoMap(<<KV(<<"a", "p", "s">>, GoInt(1)), KV(<<"a">>, GoInt(2))>>),
     GoMap(<<KV(<<"a">>, GoInt(2)), KV(<<"b">>, GoString(<<"x">>))>>),
     GoMap(<<KV(<<"b">>, GoString(<<"x">>)), KV(<<"a">>, GoInt(2))>>),
     GoMap(<<KV(<<"q", "\"">>, GoInt(1))>>),
     GoMap(<<KV(<<"c", "<01>">>, GoInt(1))>>)}
    \cup EncMaps

EncoderInputs ==
    {GoPayload(aps, c) : aps \in StaticAPSs, c \in Customs}
    \cup {GoPayload(aps, c) : aps \in DynamicAPSs,
                              c \in {NilMap, GoMap(<<KV(<<"a">>, GoInt(2))>>)}}

\* ------------------------- the payload functions applied to their inputs
PureInputs == ValidateInputs \cup EncoderInputs

dispatchVars ==
    <<cli, n, op, pc, args, body, ctxErr, xport, wpc, results, closed, successes, ret>>

\* an error of APS.MarshalJSONFast that comes from EncodeValue (part_001:335,
\* 378) and not from the type of Alert, Badge, Sound or RelevanceScore
EncodeValueFailed(aps) ==
    /\ aps.Alert.t \in {"nil", "string", "Alert", "*Alert"}
    /\ aps.Badge.t \in {"nil", "int"}
    /\ aps.Sound.t \in {"nil", "string", "Sound", "*Sound"}
    /\ aps.RelevanceScore.t \in {"nil", "float64"}

\* the slices the caller holds once the call has returned one more
Kept(o, fn, i, want) ==
    Append(o.h.slices,
           [fn |-> fn, in |-> i, x |-> o.s.x, len |-> o.s.len,
            bytes |-> o.s.bytes, got |-> Content(o.h.mem, o.s),
            want |-> want, err |-> o.err])

\* the call returned: the buffers and pools it leaves, and the slice the
\* caller now holds
Returned(o, fn, i, want) ==
    /\ Left(o)
    /\ slices' = Kept(o, fn, i, want)
    /\ UNCHANGED <<gor, fin, fres, dispatchVars>>

\* the appends of Alert.MarshalJSONFast for the Alert of aps
AlertOf(aps) ==
    IF aps.Alert.t \in {"Alert", "*Alert"} THEN Alert_MarshalJSONFast(aps.Alert.alert).b
    ELSE <<>>

\* EncodeValue(b, v) calls strconv.AppendQuote: for a string, a []byte, the
\* elements of a []string and the keys of a map
RECURSIVE Quotes(_)
Quotes(v) ==
    CASE v.t \in {"string", "[]byte"} -> TRUE
      [] v.t = "[]string" -> Len(v.ls) > 0
      [] v.t = "map" -> Len(v.kv) > 0
      [] v.t = "[]any" -> \E i \in 1..Len(v.la) : Quotes(v.la[i])
      [] OTHER -> FALSE

\* what APS.MarshalJSONFast, computing r, may do for aps on the buffers and
\* slices as they are; it calls EncodeValue for the values of ContentState
\* and Attributes
APSCalls(aps, r) ==
    UNION {APSCall(h, r, aps.Alert.t \in {"Alert", "*Alert"}, alert,
                   EncodeValueFailed(aps),
                   IF \E kv \in {aps.ContentState.kv, aps.Attributes.kv} :
                        \E i \in 1..Len(kv) : Quotes(kv[i].v)
                     THEN "strconv" ELSE "any") :
             h \in {Heap}, alert \in {AlertOf(aps)}}

InitPure ==
    /\ cli = NewClient(FALSE, FALSE)
    /\ n = Base
    /\ op = "none"
    /\ pc = "idle"
    /\ args = [n |-> Base, tokens |-> <<>>, ctxNil |-> FALSE]
    /\ body = Nil
    /\ ctxErr = FALSE
    /\ xport = <<>>
    /\ wpc = <<>>
    /\ results = <<>>
    /\ closed = FALSE
    /\ successes = <<>>
    /\ ret = NoRet
    /\ fin \in PureInputs
    /\ fres = NotApplied
    /\ PoolInit

\* fin.APS.Validate()
ApplyValidate ==
    /\ fres = NotApplied
    /\ fres' = [fn |-> "APS.Validate", err |-> APS_Validate(fin.APS)]
    /\ UNCHANGED <<fin, dispatchVars, poolVars>>

\* fin.APS.MarshalJSONFast()
ApplyAPSMarshalJSONFast ==
    /\ fres = NotApplied
    /\ \E r \in {APS_MarshalJSONFast(fin.APS)} :
         /\ fres' = [fn |-> "APS.MarshalJSONFast", out |-> r]
         /\ \E o \in APSCalls(fin.APS, r) :
              Left(o) /\ slices' = Kept(o, "APS", 0, r.b)
    /\ UNCHANGED <<fin, dispatchVars, gor>>

\* fin.APS.Alert.MarshalJSONFast(), for an Alert or a *Alert
ApplyAlertMarshalJSONFast ==
    /\ fres = NotApplied
    /\ fin.APS.Alert.t \in {"Alert", "*Alert"}
    /\ \E h \in {Heap}, r \in {Alert_MarshalJSONFast(fin.APS.Alert.alert)} :
         /\ fres' = [fn |-> "Alert.MarshalJSONFast", out |-> r]
         /\ \E o \in AlertCall(h, r.b) :
              Left(o) /\ slices' = Kept(o, "Alert", 0, r.b)
    /\ UNCHANGED <<fin, dispatchVars, gor>>

\* fin.APS.Sound.MarshalJSONFast(), for a Sound or a *Sound
ApplySoundMarshalJSONFast ==
    /\ fres = NotApplied
    /\ fin.APS.Sound.t \in {"Sound", "*Sound"}
    /\ fres' = [fn |-> "Sound.MarshalJSONFast",
                out |-> Sound_MarshalJSONFast(fin.APS.Sound.sound)]
    /\ UNCHANGED <<fin, dispatchVars, poolVars>>

\* fin.MarshalJSONFast()
ApplyPayloadMarshalJSONFast ==
    /\ fres = NotApplied
    /\ \E r \in {APS_MarshalJSONFast(fin.APS)},
          c \in {marshalCustomData(<<>>, fin.CustomData.kv, 1)} :
         \E out \in {PayloadBytes(r, c, Len(fin.CustomData.kv) > 0)} :
           /\ fres' = [fn |-> "Payload.MarshalJSONFast", out |-> out]
           /\ \E o \in PayloadCallAll(Len(fin.CustomData.kv) > 0,
                                      APSCalls(fin.APS, r), c) :
                Left(o) /\ slices' = Kept(o, "Payload", 0, out.b)
    /\ UNCHANGED <<fin, dispatchVars, gor>>

\* EncodeValue(nil, v) for the value v of entry i of fin.CustomData
ApplyEncodeValue(i) ==
    /\ fres = NotApplied
    /\ i \in 1..Len(fin.CustomData.kv)
    /\ fres' = [fn |-> "EncodeValue", arg |-> i,
                out |-> EncodeValue(<<>>, fin.CustomData.kv[i].v)]
    /\ UNCHANGED <<fin, dispatchVars, poolVars>>

NextPure ==
    \/ ApplyValidate
    \/ ApplyAPSMarshalJSONFast
    \/ ApplyAlertMarshalJSONFast
    \/ ApplySoundMarshalJSONFast
    \/ ApplyPayloadMarshalJSONFast
    \/ \E i \in 1..2 : ApplyEncodeValue(i)

SpecPure == InitPure /\ [][NextPure]_vars

\* ------------------------------------------------ claims on APS.Validate
Validated == fres.fn = "APS.Validate"
EmptyErr == ValidationErr("aps dictionary must not be empty")
RangeErr == ValidationErr("relevance-score must be between 0.0 and 1.0")
NoNotificationField ==
    /\ fin.APS.Alert = GoNil /\ fin.APS.Badge = GoNil /\ fin.APS.Sound = GoNil
    /\ fin.APS.ContentAvailable = GoNil /\ fin.APS.MutableContent = GoNil
NoLiveEntry ==
    Len(fin.APS.ContentState.kv) = 0 /\ Len(fin.APS.Attributes.kv) = 0

\* C19: APS.Validate returns "aps dictionary must not be empty" exactly when
\* Alert, Badge, Sound, ContentAvailable and MutableContent are all nil and
\* ContentState and Attributes both have no entry, whatever the other
\* fields hold; an APS with only a non-empty ContentState does not get it.
C19_EmptyDictionary ==
    Validated =>
        /\ (fres.err = EmptyErr) <=> (NoNotificationField /\ NoLiveEntry)
        /\ (NoNotificationField /\ Len(fin.APS.ContentState.kv) > 0
            /\ fin.APS = [ZeroAPS EXCEPT !.ContentState = fin.APS.ContentState])
              => fres.err = NoErr

\* an APS whose only populated field is ContentState was validated, and so
\* was one that has the other fields but nothing that classifies it
C19_Witness ==
    /\ Validated
    /\ fin.APS = [ZeroAPS EXCEPT !.ContentState = Live]
    /\ fres.err = NoErr

C19_WitnessEmpty ==
    /\ Validated
    /\ fin.APS = WithOtherFields([ZeroAPS EXCEPT !.ContentState = GoMap(<<>>)])
    /\ fres.err = EmptyErr

ScoreNumeric == fin.APS.RelevanceScore.t \in {"float64", "int"}
ScoreTenths ==
    IF fin.APS.RelevanceScore.t = "float64" THEN fin.APS.RelevanceScore.tenths
    ELSE 10 * fin.APS.RelevanceScore.v
ScoreOutside == ScoreTenths < 0 \/ ScoreTenths > 10
\* the APS is valid once its relevance score is taken away
ValidWithoutScore == APS_Validate([fin.APS EXCEPT !.RelevanceScore = GoNil]) = NoErr

\* C20: for a numeric RelevanceScore, APS.Validate returns the range error
\* only for a score outside [0.0, 1.0] on an APS that is not a live
\* activity; on an APS that is valid without its score, it returns the
\* range error if the score is outside and the APS is no live activity, and
\* no error otherwise (live activity with any score, Alert present or not,
\* or a score within the bounds, 0.0 and 1.0 included).
C20_RelevanceScoreRange ==
    (Validated /\ ScoreNumeric) =>
        /\ fres.err = RangeErr => (ScoreOutside /\ NoLiveEntry)
        /\ (ScoreOutside /\ NoLiveEntry) => fres.err # NoErr
        /\ ValidWithoutScore =>
             IF ScoreOutside /\ NoLiveEntry THEN fres.err = RangeErr
             ELSE fres.err = NoErr

\* score 1.1 with an Alert and a non-empty ContentState was accepted
C20_Witness ==
    /\ Validated
    /\ fin.APS = [ZeroAPS EXCEPT !.RelevanceScore = GoFloat64(11),
                                 !.Alert = GoString(<<"H", "i">>), !.ContentState = Live]
    /\ fres.err = NoErr

C20_WitnessRejected ==
    /\ Validated
    /\ fin.APS = [ZeroAPS EXCEPT !.RelevanceScore = GoFloat64(11),
                                 !.Alert = GoString(<<"H", "i">>)]
    /\ fres.err = RangeErr

\* ------------------------------------------------ claims on the encoders
Encoded(f) == fres.fn = f
\* what the reflective encoder gives for the value the function was applied to
StdOfApplied ==
    CASE Encoded("Sound.MarshalJSONFast") -> StdSound(fin.APS.Sound.sound)
      [] Encoded("Alert.MarshalJSONFast") -> StdAlert(fin.APS.Alert.alert)
      [] Encoded("APS.MarshalJSONFast") -> StdAPS(fin.APS)
      [] Encoded("Payload.MarshalJSONFast") -> Payload_MarshalJSON(fin)
      [] OTHER -> StdFail
TopLevelCount(v, k) == Cardinality({a \in 1..Len(v.kv) : v.kv[a].k = k})

\* C14: the bytes Payload.MarshalJSONFast returns are one JSON object in
\* which no key occurs twice at any nesting level, "aps" exactly once at the
\* top level, whatever the APS and the CustomData (a key "aps" included).
C14_NoDuplicateKeys ==
    (Encoded("Payload.MarshalJSONFast") /\ fres.out.err = NoErr) =>
        LET v == Parse(fres.out.b)
        IN  /\ v.j = "obj"
            /\ ~HasDuplicateKey(v)
            /\ TopLevelCount(v, <<"a", "p", "s">>) = 1

RECURSIVE SupportedValue(_)
SupportedValue(v) ==
    \/ v.t \in {"string", "int", "int64", "float64", "bool", "nil", "[]byte",
                "EpochTime", "*EpochTime", "[]string", "[]int", "[]int64", "[]float64"}
    \/ v.t = "Marshaler" /\ v.res.err = NoErr
    \/ v.t = "map" /\ \A i \in 1..Len(v.kv) : SupportedValue(v.kv[i].v)
    \/ v.t = "[]any" /\ \A i \in 1..Len(v.la) : SupportedValue(v.la[i])
SupportedAPS(aps) ==
    /\ aps.Alert.t \in {"nil", "string", "Alert", "*Alert"}
    /\ aps.Badge.t \in {"nil", "int"}
    /\ aps.Sound.t \in {"nil", "string", "Sound", "*Sound"}
    /\ aps.ContentAvailable \in {GoNil, GoInt(1)}
    /\ aps.MutableContent \in {GoNil, GoInt(1)}
    /\ aps.RelevanceScore.t \in {"nil", "float64"}
    /\ SupportedValue(aps.ContentState)
    /\ SupportedValue(aps.Attributes)

\* C15: for an APS whose dynamic fields hold supported types only,
\* APS.MarshalJSONFast returns no error and its output, read back, holds the
\* same key/value pairs at every level (arrays in order) as the output of
\* the reflective encoder for the same APS.
C15_EncoderEquivalence ==
    (Encoded("APS.MarshalJSONFast") /\ SupportedAPS(fin.APS)) =>
        /\ fres.out.err = NoErr
        /\ StdAPS(fin.APS).err = NoErr
        /\ SameJSON(Parse(fres.out.b), StdAPS(fin.APS).v)

\* two values have, at every level, their keys in the same order
RECURSIVE SameKeyOrder(_, _)
SameKeyOrder(v, w) ==
    IF v.j # w.j THEN FALSE
    ELSE IF v.j = "obj"
      THEN /\ Keys(v) = Keys(w)
           /\ \A a \in 1..Len(v.kv) : SameKeyOrder(v.kv[a].v, w.kv[a].v)
    ELSE IF v.j = "arr"
      THEN /\ Len(v.el) = Len(w.el)
           /\ \A a \in 1..Len(v.el) : SameKeyOrder(v.el[a], w.el[a])
    ELSE TRUE
StructEncoded ==
    \/ Encoded("Sound.MarshalJSONFast") \/ Encoded("Alert.MarshalJSONFast")
    \/ Encoded("APS.MarshalJSONFast") \/ Encoded("Payload.MarshalJSONFast")
BothEncoded ==
    /\ StructEncoded
    /\ fres.out.err = NoErr /\ Parse(fres.out.b) # JInvalid
    /\ StdOfApplied.err = NoErr

\* C16 as stated: at every nesting level the keys of the output of
\* MarshalJSONFast of a Sound, an Alert, an APS or a Payload come in the
\* order in which the reflective encoder writes them.
C16_SameKeyOrder ==
    BothEncoded => SameKeyOrder(Parse(fres.out.b), StdOfApplied.v)

\* the keys of ks that are in the set s, in the order of ks
Restrict(ks, s) == SelectSeq(ks, LAMBDA k : k \in s)
SoundFastOrder == <<<<"c", "r", "i", "t", "i", "c", "a", "l">>, <<"n", "a", "m", "e">>, <<"v", "o", "l", "u", "m", "e">>>>
AlertFastOrder ==
    <<<<"t", "i", "t", "l", "e">>, <<"s", "u", "b", "t", "i", "t", "l", "e">>, <<"b", "o", "d", "y">>, <<"l", "a", "u", "n", "c", "h", "-", "i", "m", "a", "g", "e">>, <<"l", "o", "c", "-", "k", "e", "y">>,
      <<"l", "o", "c", "-", "a", "r", "g", "s">>, <<"t", "i", "t", "l", "e", "-", "l", "o", "c", "-", "k", "e", "y">>, <<"t", "i", "t", "l", "e", "-", "l", "o", "c", "-", "a", "r", "g", "s">>,
      <<"s", "u", "b", "t", "i", "t", "l", "e", "-", "l", "o", "c", "-", "k", "e", "y">>, <<"s", "u", "b", "t", "i", "t", "l", "e", "-", "l", "o", "c", "-", "a", "r", "g", "s">>, <<"a", "c", "t", "i", "o", "n", "-", "l", "o", "c", "-", "k", "e", "y">>>>
NoDynamicMap == Len(fin.APS.ContentState.kv) = 0 /\ Len(fin.APS.Attributes.kv) = 0

\* C16 amended: the top-level keys MarshalJSONFast writes for a Sound, an
\* Alert or an APS without ContentState and Attributes are the keys the
\* reflective encoder writes, each once; for the APS they come in the
\* reflective encoder's order (the declaration order), for the Sound in the
\* order critical, name, volume and for the Alert with action-loc-key last.
C16_StructKeys ==
    (BothEncoded /\ ~Encoded("Payload.MarshalJSONFast")
     /\ (Encoded("APS.MarshalJSONFast") => NoDynamicMap)) =>
        LET v == Parse(fres.out.b)
            w == StdOfApplied.v
        IN  /\ v.j = "obj"
            /\ KeySet(v) = KeySet(w)
            /\ Len(v.kv) = Cardinality(KeySet(v))
            /\ Encoded("APS.MarshalJSONFast") => Keys(v) = Keys(w)
            /\ Encoded("Sound.MarshalJSONFast") => Keys(v) = Restrict(SoundFastOrder, KeySet(w))
            /\ Encoded("Alert.MarshalJSONFast") => Keys(v) = Restrict(AlertFastOrder, KeySet(w))

\* a Sound with its three fields was encoded: critical comes first, where
\* the reflective encoder writes name first
C16_Witness ==
    /\ Encoded("Sound.MarshalJSONFast")
    /\ fres.out.err = NoErr
    /\ Keys(Parse(fres.out.b)) = SoundFastOrder
    /\ Keys(StdOfApplied.v) = <<<<"n", "a", "m", "e">>, <<"c", "r", "i", "t", "i", "c", "a", "l">>, <<"v", "o", "l", "u", "m", "e">>>>

RECURSIVE HasUnsupported(_)
HasUnsupported(v) ==
    \/ v.t \in {"chan", "func"}
    \/ v.t = "map" /\ \E i \in 1..Len(v.kv) : HasUnsupported(v.kv[i].v)
    \/ v.t = "[]any" /\ \E i \in 1..Len(v.la) : HasUnsupported(v.la[i])
NothingReturned ==
    fres.out.nilSlice /\ fres.out.b = <<>> /\ fres.out.err # NoErr

\* C17: with a value of an unsupported type at any depth of the value given
\* to EncodeValue, of ContentState or Attributes for APS.MarshalJSONFast, of
\* these or CustomData for Payload.MarshalJSONFast, the function returns a
\* nil slice and a non-nil error.
C17_NoPartialOutput ==
    /\ (Encoded("EncodeValue") /\ HasUnsupported(fin.CustomData.kv[fres.arg].v))
         => NothingReturned
    /\ (Encoded("APS.MarshalJSONFast")
        /\ (HasUnsupported(fin.APS.ContentState) \/ HasUnsupported(fin.APS.Attributes)))
         => NothingReturned
    /\ (Encoded("Payload.MarshalJSONFast")
        /\ (HasUnsupported(fin.APS.ContentState) \/ HasUnsupported(fin.APS.Attributes)
            \/ HasUnsupported(fin.CustomData)))
         => NothingReturned

\* Payload.MarshalJSONFast was applied to a payload whose APS encodes and
\* whose CustomData holds a channel under MaxDepth levels of maps and lists
C17_Witness ==
    /\ Encoded("Payload.MarshalJSONFast")
    /\ fin.APS = [ZeroAPS EXCEPT !.Alert = GoString(<<"s", "i", "m", "p", "l", "e", " ", "a", "l", "e", "r", "t">>)]
    /\ fin.CustomData = GoMap(<<KV(<<"k">>, Nest(GoChan, MaxDepth))>>)
    /\ NothingReturned
    /\ fres.out.err = ErrInvalidType

\* --------------------------------------------------- the buffer pools
\* Payload.MarshalJSONFast called by several goroutines at once, as concurrent
\* Push calls on one Client do. Every append to a pooled buffer and every byte
\* copied out of one is a step of its own. The payloads have a nil or int
\* Badge and no other APS field, so that Alert.MarshalJSONFast and alertPool
\* are not involved, and all of them encode without error, in fewer bytes than
\* apsBufSize and customDataBufSize, so that append never reallocates.
MaxCalls == 2       \* calls of Payload.MarshalJSONFast made by each goroutine
PoolInputs ==
    <<GoPayload(ZeroAPS, NilMap),
      GoPayload([ZeroAPS EXCEPT !.Badge = GoInt(7)], NilMap),
      GoPayload([ZeroAPS EXCEPT !.Badge = GoInt(8)], GoMap(<<KV(<<"k">>, GoInt(1))>>))>>

\* the payload of goroutine g's call
PayloadOf(g) == PoolInputs[gor[g].p]

\* sync.Pool.Get: an item of the pool, or the result of New; Get may treat the
\* pool as empty. New makes the buffers of ids in order.
PoolGet(pool, ids) ==
    LET unmade == {x \in ids : ~mem[x].made}
    IN  pool \cup (IF unmade = {} THEN {}
                   ELSE {CHOOSE x \in unmade : \A y \in unmade : x <= y})

\* the backing array a after c is stored at position i (i <= Len(a) + 1)
Store(a, i, c) == IF i <= Len(a) THEN [a EXCEPT ![i] = c] ELSE Append(a, c)

\* b := make([]byte, 0, ...); b = append(b, '{'); b = append(b, `"aps":`...)
ResultStart == <<"{", "\"", "a", "p", "s", "\"", ":">>

\* a goroutine calls p.MarshalJSONFast()
PayloadCall(g, p) ==
    /\ gor[g].pc \in {"idle", "done"}
    /\ gor[g].calls < MaxCalls
    /\ Len(APS_MarshalJSONFast(PoolInputs[p].APS).b) <= apsBufSize
    /\ Len(marshalCustomData(<<>>, PoolInputs[p].CustomData.kv, 1).b) <= customDataBufSize
    /\ gor' = [gor EXCEPT ![g] = [NotCalled EXCEPT !.pc = "apsGet", !.p = p,
                                                   !.calls = gor[g].calls + 1]]
    /\ UNCHANGED <<apsPool, customDataPool, mem, fin, fres, dispatchVars, callVars>>

\* APS.MarshalJSONFast: ptr := apsPool.Get().(*[]byte); b := (*ptr)[:0]
APSGet(g) ==
    /\ gor[g].pc = "apsGet"
    /\ \E x \in PoolGet(apsPool, apsBufs) :
         /\ apsPool' = apsPool \ {x}
         /\ mem' = [mem EXCEPT ![x].made = TRUE]
         /\ gor' = [gor EXCEPT ![g].pc = "apsWrite", ![g].aps = x, ![g].i = 0,
                               ![g].w = APS_MarshalJSONFast(PayloadOf(g).APS).b]
    /\ UNCHANGED <<customDataPool, fin, fres, dispatchVars, callVars>>

\* APS.MarshalJSONFast: one byte appended to b
APSAppend(g) ==
    /\ gor[g].pc = "apsWrite"
    /\ gor[g].i < Len(gor[g].w)
    /\ mem' = [mem EXCEPT ![gor[g].aps].a = Store(@, gor[g].i + 1, gor[g].w[gor[g].i + 1])]
    /\ gor' = [gor EXCEPT ![g].i = @ + 1]
    /\ UNCHANGED <<apsPool, customDataPool, fin, fres, dispatchVars, callVars>>

\* APS.MarshalJSONFast: return b, nil, and the deferred *ptr = b; apsPool.Put(ptr).
\* Payload.MarshalJSONFast keeps the returned slice as apsBytes.
APSReturn(g) ==
    /\ gor[g].pc = "apsWrite"
    /\ gor[g].i = Len(gor[g].w)
    /\ apsPool' = apsPool \cup {gor[g].aps}
    /\ gor' = [gor EXCEPT ![g].apsLen = Len(gor[g].w), ![g].w = <<>>, ![g].i = 0,
                          ![g].pc = IF Len(PayloadOf(g).CustomData.kv) > 0
                                      THEN "cdGet" ELSE "copyAps",
                          ![g].b = IF Len(PayloadOf(g).CustomData.kv) > 0
                                     THEN <<>> ELSE ResultStart]
    /\ UNCHANGED <<customDataPool, mem, fin, fres, dispatchVars, callVars>>

\* Payload.MarshalJSONFast: ptr := customDataPool.Get().(*[]byte); b := (*ptr)[:0]
CustomDataGet(g) ==
    /\ gor[g].pc = "cdGet"
    /\ \E x \in PoolGet(customDataPool, customDataBufs) :
         /\ customDataPool' = customDataPool \ {x}
         /\ mem' = [mem EXCEPT ![x].made = TRUE]
         /\ gor' = [gor EXCEPT ![g].pc = "cdWrite", ![g].cd = x, ![g].i = 0,
                      ![g].w = marshalCustomData(<<>>, PayloadOf(g).CustomData.kv, 1).b]
    /\ UNCHANGED <<apsPool, fin, fres, dispatchVars, callVars>>

\* marshalCustomData: one byte appended to b
CustomDataAppend(g) ==
    /\ gor[g].pc = "cdWrite"
    /\ gor[g].i < Len(gor[g].w)
    /\ mem' = [mem EXCEPT ![gor[g].cd].a = Store(@, gor[g].i + 1, gor[g].w[gor[g].i + 1])]
    /\ gor' = [gor EXCEPT ![g].i = @ + 1]
    /\ UNCHANGED <<apsPool, customDataPool, fin, fres, dispatchVars, callVars>>

\* marshalCustomData returns customDataBytes; the result buffer is made
CustomDataReturn(g) ==
    /\ gor[g].pc = "cdWrite"
    /\ gor[g].i = Len(gor[g].w)
    /\ gor' = [gor EXCEPT ![g].cdLen = Len(gor[g].w), ![g].w = <<>>, ![g].i = 0,
                          ![g].pc = "copyAps", ![g].b = ResultStart]
    /\ UNCHANGED <<apsPool, customDataPool, mem, fin, fres, dispatchVars, callVars>>

\* b = append(b, apsBytes...): one byte read from the array behind apsBytes
CopyAPS(g) ==
    /\ gor[g].pc = "copyAps"
    /\ gor[g].i < gor[g].apsLen
    /\ gor' = [gor EXCEPT ![g].b = Append(@, mem[gor[g].aps].a[gor[g].i + 1]),
                          ![g].i = @ + 1]
    /\ UNCHANGED <<apsPool, customDataPool, mem, fin, fres, dispatchVars, callVars>>

\* apsBytes is copied: if len(p.CustomData) > 0 { b = append(b, ',') ...
CopyAPSDone(g) ==
    /\ gor[g].pc = "copyAps"
    /\ gor[g].i = gor[g].apsLen
    /\ gor' = [gor EXCEPT ![g].i = 0,
                          ![g].pc = IF Len(PayloadOf(g).CustomData.kv) > 0
                                      THEN "copyCd" ELSE "ret",
                          ![g].b = IF Len(PayloadOf(g).CustomData.kv) > 0
                                     THEN Append(@, ",") ELSE @]
    /\ UNCHANGED <<apsPool, customDataPool, mem, fin, fres, dispatchVars, callVars>>

\* b = append(b, customDataBytes...): one byte read from the array behind it
CopyCustomData(g) ==
    /\ gor[g].pc = "copyCd"
    /\ gor[g].i < gor[g].cdLen
    /\ gor' = [gor EXCEPT ![g].b = Append(@, mem[gor[g].cd].a[gor[g].i + 1]),
                          ![g].i = @ + 1]
    /\ UNCHANGED <<apsPool, customDataPool, mem, fin, fres, dispatchVars, callVars>>

\* b = append(b, '}'); return b, nil, and the deferred customDataPool.Put(ptr)
PayloadReturn(g) ==
    /\ \/ gor[g].pc = "ret"
       \/ gor[g].pc = "copyCd" /\ gor[g].i = gor[g].cdLen
    /\ gor' = [gor EXCEPT ![g].pc = "done", ![g].b = Append(@, "}")]
    /\ customDataPool' = IF gor[g].cd # 0 THEN customDataPool \cup {gor[g].cd}
                         ELSE customDataPool
    /\ UNCHANGED <<apsPool, mem, fin, fres, dispatchVars, callVars>>

InitPool ==
    /\ cli = NewClient(FALSE, FALSE)
    /\ n = Base
    /\ op = "none"
    /\ pc = "idle"
    /\ args = [n |-> Base, tokens |-> <<>>, ctxNil |-> FALSE]
    /\ body = Nil
    /\ ctxErr = FALSE
    /\ xport = <<>>
    /\ wpc = <<>>
    /\ results = <<>>
    /\ closed = FALSE
    /\ successes = <<>>
    /\ ret = NoRet
    /\ fin = NoInput
    /\ fres = NotApplied
    /\ PoolInit

NextPool ==
    \/ \E g \in Goroutines, p \in 1..Len(PoolInputs) : PayloadCall(g, p)
    \/ \E g \in Goroutines : APSGet(g)
    \/ \E g \in Goroutines : APSAppend(g)
    \/ \E g \in Goroutines : APSReturn(g)
    \/ \E g \in Goroutines : CustomDataGet(g)
    \/ \E g \in Goroutines : CustomDataAppend(g)
    \/ \E g \in Goroutines : CustomDataReturn(g)
    \/ \E g \in Goroutines : CopyAPS(g)
    \/ \E g \in Goroutines : CopyAPSDone(g)
    \/ \E g \in Goroutines : CopyCustomData(g)
    \/ \E g \in Goroutines : PayloadReturn(g)

SpecPool == InitPool /\ [][NextPool]_vars

\* ----------------------------------------------- claims on the buffer pools
\* what the call of goroutine g returns when it runs alone
Alone(g) == Payload_MarshalJSONFast(PayloadOf(g)).b

\* goroutine g appends to buffer x
Writes(g, x) ==
    \/ gor[g].pc = "apsWrite" /\ gor[g].aps = x
    \/ gor[g].pc = "cdWrite" /\ gor[g].cd = x

\* goroutine g holds buffer x (got and not yet put back) or has yet to read
\* bytes stored in it
HoldsOrReads(g, x) ==
    \/ gor[g].pc \in {"apsWrite", "cdGet", "cdWrite", "copyAps"} /\ gor[g].aps = x
    \/ gor[g].pc \in {"cdWrite", "copyAps", "copyCd"} /\ gor[g].cd = x

\* C18: whatever the interleaving of concurrent MarshalJSONFast calls, a call
\* returns the bytes it returns when it runs alone, and no call appends to a
\* pooled buffer that another call holds or still reads
C18_ExclusiveBuffers ==
    /\ \A g \in Goroutines : gor[g].pc = "done" => gor[g].b = Alone(g)
    /\ \A g, h \in Goroutines, x \in apsBufs \cup customDataBufs :
         g # h => ~(Writes(h, x) /\ HoldsOrReads(g, x))

\* ------------------------------------------ the buffers from call to call
\* The MarshalJSONFast functions called one after the other by one
\* goroutine; a call is one step. A slice is the array it shares (x, a
\* pooled buffer, or 0 for an array no pool knows, whose content is bytes)
\* and its length; slices holds what the calls returned, which the caller
\* keeps: got is the content at the return, want the encoding of the input.
MaxSlices == 3      \* calls made

CallAPSs ==
    <<[ZeroAPS EXCEPT !.Badge = GoInt(7)],
      [ZeroAPS EXCEPT !.Badge = GoInt(8), !.Category = <<"c">>],
      [ZeroAPS EXCEPT !.Alert = GoAlert([ZeroAlert EXCEPT !.Title = <<"t">>])],
      [ZeroAPS EXCEPT !.ContentState = GoMap(<<KV(<<"k">>, GoChan)>>)],
      [ZeroAPS EXCEPT !.Badge = GoString(<<"x">>)]>>
CallAlerts ==
    <<[ZeroAlert EXCEPT !.Title = <<"t">>], [ZeroAlert EXCEPT !.Body = <<"b", "b">>]>>
CallPayloads ==
    <<GoPayload(CallAPSs[1], NilMap),
      GoPayload(CallAPSs[1], GoMap(<<KV(<<"k">>, GoInt(1))>>)),
      GoPayload(CallAPSs[1], GoMap(<<KV(<<"k">>, GoChan)>>)),
      GoPayload(CallAPSs[4], GoMap(<<KV(<<"k">>, GoInt(1))>>))>>

\* b, err := CallAPSs[i].MarshalJSONFast()
CallAPS(i) ==
    /\ Len(slices) < MaxSlices
    /\ \E r \in {APS_MarshalJSONFast(CallAPSs[i])} :
         \E o \in APSCalls(CallAPSs[i], r) : Returned(o, "APS", i, r.b)

\* b, err := CallAlerts[i].MarshalJSONFast()
CallAlert(i) ==
    /\ Len(slices) < MaxSlices
    /\ \E h \in {Heap}, w \in {Alert_MarshalJSONFast(CallAlerts[i]).b} :
         \E o \in AlertCall(h, w) : Returned(o, "Alert", i, w)

\* b, err := CallPayloads[i].MarshalJSONFast(); what the call is to return is
\* Payload_MarshalJSONFast(CallPayloads[i]), here with its two encodings
\* computed once
CallPayload(i) ==
    /\ Len(slices) < MaxSlices
    /\ \E r \in {APS_MarshalJSONFast(CallPayloads[i].APS)},
          c \in {marshalCustomData(<<>>, CallPayloads[i].CustomData.kv, 1)} :
         \E o \in PayloadCallAll(Len(CallPayloads[i].CustomData.kv) > 0,
                                 APSCalls(CallPayloads[i].APS, r), c) :
            Returned(o, "Payload", i,
                     PayloadBytes(r, c, Len(CallPayloads[i].CustomData.kv) > 0).b)

InitCalls ==
    /\ cli = NewClient(FALSE, FALSE)
    /\ n = Base
    /\ op = "none"
    /\ pc = "idle"
    /\ args = [n |-> Base, tokens |-> <<>>, ctxNil |-> FALSE]
    /\ body = Nil
    /\ ctxErr = FALSE
    /\ xport = <<>>
    /\ wpc = <<>>
    /\ results = <<>>
    /\ closed = FALSE
    /\ successes = <<>>
    /\ ret = NoRet
    /\ fin = NoInput
    /\ fres = NotApplied
    /\ PoolInit

NextCalls ==
    \/ \E i \in 1..Len(CallAPSs) : CallAPS(i)
    \/ \E i \in 1..Len(CallAlerts) : CallAlert(i)
    \/ \E i \in 1..Len(CallPayloads) : CallPayload(i)

SpecCalls == InitCalls /\ [][NextCalls]_vars

\* --------------------------------- claims on the buffers from call to call
PoolOf(x) ==
    IF x \in apsBufs THEN apsPool
    ELSE IF x \in customDataBufs THEN customDataPool
    ELSE alertPool

\* C24: when a MarshalJSONFast call has returned, with or without an error
\* (that of EncodeValue included), every buffer it took from a pool is back
\* in that pool and has kept its capacity (at least that of the buffer New
\* makes), and the next call that takes it sees it as empty: what a call
\* returns is the encoding of its input and nothing the buffer held before.
C24_PoolDiscipline ==
    /\ \A x \in DOMAIN mem : mem[x].made => x \in PoolOf(x)
    /\ \A x \in DOMAIN mem : mem[x].made => mem[x].cap >= NewCap(x)
    /\ \A h \in DOMAIN slices : slices[h].got = slices[h].want

\* C30: a slice that APS.MarshalJSONFast or Alert.MarshalJSONFast returned
\* still holds the bytes it held when it was returned, whatever calls were
\* made since: no later call writes to the array the slice shares.
C30_ReturnedBytesKept ==
    \A h \in DOMAIN slices :
        (slices[h].fn \in {"APS", "Alert"} /\ slices[h].err = NoErr) =>
            Content(mem, slices[h]) = slices[h].got

\* ------------------------------------------------ termination of PushMulti
\* Spec with the scheduling of the Go runtime: a goroutine that can run
\* does run (the workers, and PushMulti itself at wg.Wait, close and the
\* drain loop), and every call of the transport returns. The caller is not
\* bound to call anything, nor to cancel the context.
Fairness ==
    /\ WF_vars(\E o \in MultiOutcomes : MultiFirstRecv(o))
    /\ \A i \in 1..(MaxLen + 1) : WF_vars(WorkerStart(i))
    /\ \A i \in 1..(MaxLen + 1) : WF_vars(\E o \in MultiOutcomes : WorkerRecv(i, o))
    /\ WF_vars(MultiWait)
    /\ WF_vars(MultiDrain)
SpecLive == Spec /\ Fairness

WorkersDone == {i \in DOMAIN wpc : wpc[i] = "done"}
Workers == {i \in DOMAIN wpc : wpc[i] # "none"}

\* C28: every transport call returning, PushMulti returns in the end; every
\* worker sends one result and no more, the results sent never exceed the
\* len(tokens)-1 places of the channel, so no send blocks; the channel is
\* closed once, after the last send, and read only after that.
C28_Termination ==
    /\ (op = "PushMulti") ~> (pc \in {"done", "panic"})
    /\ []((op = "PushMulti" /\ pc = "wait") =>
            /\ Len(results) = Cardinality(WorkersDone)
            /\ Len(results) <= Len(args.tokens) - 1
            /\ Cardinality(Workers) = Len(args.tokens) - 1
            /\ ~closed)
    /\ []((op = "PushMulti" /\ pc = "drain") =>
            /\ closed
            /\ WorkersDone = Workers
            /\ Len(results) = Len(args.tokens) - 1)
    /\ [][/\ closed => (closed' /\ Len(results') <= Len(results) /\ wpc' = wpc)
          /\ (pc = "wait" /\ pc' = "wait") => Len(results') <= Len(results) + 1
          /\ (pc = "wait" /\ results' # results) =>
                \E i \in Workers : wpc[i] # "done" /\ wpc'[i] = "done"]_vars

\* PushMulti has returned after three workers sent their results, one of
\* them without calling the transport
C28_Witness ==
    /\ MultiDone
    /\ closed
    /\ Len(args.tokens) = MaxLen
    /\ WorkersDone = 2..MaxLen
    /\ \E i \in WorkersDone : xport[i].calls = 0
    /\ \E i \in WorkersDone : xport[i].calls = 1

\* ------------------------------------------ claims on the result accounting
\* the keys of Failures in the error PushMulti returned
FailureKeys == IF ret.err.kind = "MultiError" THEN DOMAIN ret.err.Failures ELSE {}

\* C27: when the send to tokens[0] succeeded and PushMulti has returned,
\* every position of the token list is counted once: the successes and the
\* entries of Failures add up to the number of tokens, and no token is both
\* in the success list and a key of Failures, duplicates included.
C27_ResultAccounting ==
    (MultiDone /\ FirstAccepted) =>
        /\ Len(ret.list) + Cardinality(FailureKeys) = Len(args.tokens)
        /\ \A k \in 1..Len(ret.list) : ret.list[k].DeviceToken \notin FailureKeys

\* ------------------------------------------ claims on the order of checks
\* the error of each field taken alone, in the order alert, badge, sound,
\* contentAvailable, mutableContent, interruptionLevel, event, relevanceScore
FieldErrors(aps) ==
    <<IF aps.Alert.t \in {"nil", "string", "Alert", "*Alert"} THEN NoErr
      ELSE ValidationErr("invalid type for aps.Alert"),
      IF aps.Badge.t \in {"nil", "int"} THEN NoErr
      ELSE ValidationErr("invalid type for aps.Badge"),
      IF aps.Sound.t \in {"nil", "string"} THEN NoErr
      ELSE IF aps.Sound.t \notin {"Sound", "*Sound"}
        THEN ValidationErr("invalid type for aps.Sound")
      ELSE IF aps.Sound.sound.Critical \notin {0, 1}
        THEN ValidationErr("invalid critical flag")
      ELSE IF aps.Sound.sound.Volume < 0 \/ aps.Sound.sound.Volume > 10
        THEN ValidationErr("volume field error")
      ELSE NoErr,
      IF aps.ContentAvailable \in {GoNil, GoInt(1)} THEN NoErr
      ELSE ValidationErr("invalid value for aps.ContentAvailable"),
      IF aps.MutableContent \in {GoNil, GoInt(1)} THEN NoErr
      ELSE ValidationErr("invalid value for aps.MutableContent"),
      IF aps.InterruptionLevel \in InterruptionLevels \cup {<<>>} THEN NoErr
      ELSE ValidationErr("invalid value for aps.InterruptionLevel"),
      IF aps.Event \in Events \cup {<<>>} THEN NoErr
      ELSE ValidationErr("invalid value for aps.Event"),
      RelevanceScoreCheck(aps.RelevanceScore, isLiveActivity(aps))>>

RECURSIVE FirstError(_, _)
FirstError(errs, i) ==
    IF i > Len(errs) THEN NoErr
    ELSE IF errs[i] # NoErr THEN errs[i]
    ELSE FirstError(errs, i + 1)

InvalidFields == {i \in 1..8 : FieldErrors(fin.APS)[i] # NoErr}

\* C26: APS.Validate returns the error of the empty dictionary before any
\* other, and otherwise the error of the first invalid field in the order
\* alert, badge, sound (critical flag before volume), contentAvailable,
\* mutableContent, interruptionLevel, event, relevanceScore.
C26_FirstErrorWins ==
    Validated =>
        fres.err = IF NoNotificationField /\ NoLiveEntry THEN EmptyErr
                   ELSE FirstError(FieldErrors(fin.APS), 1)

\* several fields are invalid, the sound among them but not the first
C26_Witness ==
    /\ Validated
    /\ Cardinality(InvalidFields) >= 2
    /\ 3 \in InvalidFields
    /\ 2 \in InvalidFields
    /\ fres.err = ValidationErr("invalid type for aps.Badge")

\* a sound with a bad critical flag and a bad volume, and a later bad field
C26_WitnessSound ==
    /\ Validated
    /\ fin.APS.Sound.t \in {"Sound", "*Sound"}
    /\ fin.APS.Sound.sound.Critical \notin {0, 1}
    /\ fin.APS.Sound.sound.Volume > 10
    /\ 8 \in InvalidFields
    /\ fres.err = ValidationErr("invalid critical flag")

\* ------------------------------------------- claims on the escaping rule
\* the rule for one byte: \u00XX for a byte up to 0x1F, a backslash before
\* the quote and the backslash, any other byte as it is
RuleByte(c) ==
    IF Code(c) <= 31
      THEN <<"\\", "u", "0", "0", hex[(Code(c) \div 16) + 1], hex[(Code(c) % 16) + 1]>>
    ELSE IF c \in {"\"", "\\"} THEN <<"\\", c>>
    ELSE <<c>>
RECURSIVE RuleBytes(_)
RuleBytes(val) == IF val = <<>> THEN <<>> ELSE RuleByte(Head(val)) \o RuleBytes(Tail(val))
RuleQuoted(val) == <<"\"">> \o RuleBytes(val) \o <<"\"">>

\* every string of the JSON text s, read from byte i on, is written by the
\* rule: no raw byte up to 0x1F, no escape but \", \\ and \u00XX
RECURSIVE WellEscaped(_, _, _)
WellEscaped(s, i, inString) ==
    IF i > Len(s) THEN ~inString
    ELSE IF ~inString THEN WellEscaped(s, i + 1, s[i] = "\"")
    ELSE IF s[i] = "\"" THEN WellEscaped(s, i + 1, FALSE)
    ELSE IF s[i] = "\\"
      THEN IF At(s, i + 1) \in {"\"", "\\"} THEN WellEscaped(s, i + 2, TRUE)
           ELSE /\ At(s, i + 1) = "u" /\ At(s, i + 2) = "0" /\ At(s, i + 3) = "0"
                /\ HexVal(At(s, i + 4)) \in {0, 1}
                /\ HexVal(At(s, i + 5)) \in 0..15
                /\ WellEscaped(s, i + 6, TRUE)
    ELSE Code(s[i]) > 31 /\ WellEscaped(s, i + 1, TRUE)

EncodedString ==
    /\ Encoded("EncodeValue")
    /\ fin.CustomData.kv[fres.arg].v.t = "string"

\* C25: every string the fast encoder emits is written by the escaping rule:
\* the output of Alert, Sound, APS and Payload.MarshalJSONFast and of
\* EncodeValue holds no string with a raw byte up to 0x1F or with another
\* escape than \", \\ and \u00XX, and EncodeValue of a string is the quoted
\* string with each byte written by the rule.
C25_EscapingRule ==
    /\ (fres.fn \in {"APS.MarshalJSONFast", "Alert.MarshalJSONFast", "Sound.MarshalJSONFast",
                     "Payload.MarshalJSONFast", "EncodeValue"} /\ fres.out.err = NoErr)
         => WellEscaped(fres.out.b, 1, FALSE)
    /\ EncodedString => fres.out.b = RuleQuoted(fin.CustomData.kv[fres.arg].v.s)

\* ------------------------------ claims on validation and the fast encoder
\* C29: an APS that APS.Validate accepts and whose ContentState and
\* Attributes hold supported dynamic values only is encoded by
\* APS.MarshalJSONFast without error, an integer RelevanceScore included.
C29_ValidatedEncodes ==
    (/\ Encoded("APS.MarshalJSONFast")
     /\ APS_Validate(fin.APS) = NoErr
     /\ SupportedValue(fin.APS.ContentState)
     /\ SupportedValue(fin.APS.Attributes))
        => fres.out.err = NoErr

====
